---- MODULE Spec2Model ----
(***************************************************************************)
(* d-vecDB: the vector store coordinator, the storage engine with its      *)
(* write-ahead log and crash recovery, the WAL frame format and the HNSW   *)
(* index, modelled from the Rust sources.                                  *)
(*                                                                         *)
(* Eight specifications share this module:                                 *)
(*   Spec      the vector store and storage engine called by one task at a *)
(*             time, with WAL append failures and kill/restart (the WAL as *)
(*             a sequence of operations);                                  *)
(*   SpecConc  the same store called by concurrent tasks;                  *)
(*   SpecWal   the WAL file at byte level: framing, concurrent appends,    *)
(*             truncation by a kill, read_all;                             *)
(*   SpecHnsw  one HNSW index: insert, delete, search on the graph;        *)
(*   SpecMmap  one memory-mapped file: concurrent appends, growth, reads,  *)
(*             the frame iterator;                                         *)
(*   SpecRecovery  recover_from_wal on any short WAL over any set of       *)
(*             collection directories;                                     *)
(*   SpecIndexLocks  the locks taken by concurrent insert, delete and      *)
(*             query on one index;                                         *)
(*   SpecMmapLocks  the locks taken by concurrent append and sync on one   *)
(*             memory-mapped file.                                         *)
(* A specification leaves the variables of the others at their initial     *)
(* values.                                                                 *)
(***************************************************************************)
EXTENDS Integers, Sequences, FiniteSets, TLC

(***************************************************************************)
(* Bounds of the model.                                                    *)
(***************************************************************************)
NumTasks == 2
\* WAL entries a call may find at its start: one caller, concurrent callers
MaxWal == 4
MaxWalConc == 3
MaxFaults == 1

Tasks == 1..NumTasks
Names == {"a", "b"}
Dims == {1, 2}
Ids == {1, 2}
Lens == {1, 2}
\* at most one storage object per registered name and one per task is alive
Handles == 1..(Cardinality(Names) + NumTasks)

VARIABLES
    \* ---- storage engine and vector store (Spec) ----
    wal,        \* the WAL as the sequence of operations read_all would return
    dirs,       \* collection directories on disk (with vectors.bin, index.bin)
    storages,   \* the CollectionStorage objects allocated in this process run
    registry,   \* StorageEngine.collections: name -> storage handle (0: none)
    indexes,    \* VectorStore.indexes: name -> index object or NoIndex
    task,       \* each task's position and locals
    phase,      \* "up": the store is serving; "failed": startup returned Err
    restarts,   \* number of kill/restart cycles so far
    walFails,   \* number of WAL append failures injected so far
    ret,        \* what the latest step returned to its caller (NoReturn: nothing)
    mode        \* "serial": one caller at a time; "concurrent": NumTasks callers

storeVars == <<wal, dirs, storages, registry, indexes, task, phase, restarts,
               walFails, ret, mode>>

VARIABLES
    \* ---- the WAL file at byte level (SpecWal) ----
    walBytes,   \* the content of the WAL file
    walWriter,  \* each task's position inside append
    walLog,     \* the operations whose append has returned Ok, in that order
    walOverlap, \* some append started while another was between its writes
    walCut,     \* the process was killed and the file ends in a partial frame
    walRead     \* what the latest read_all returned (NotRead: not called)

walVars == <<walBytes, walWriter, walLog, walOverlap, walCut, walRead>>

VARIABLES
    \* ---- one HNSW index (SpecHnsw) ----
    hnsw,       \* HnswIndex: the node table and the entry point (0: None)
    metric,     \* the index's distance metric
    hist,       \* the calls made so far: counts, the id inserted last, the ids
                \* whose delete completed and that were not inserted since
    found       \* what the latest search returned (NotSearched: not called)

hnswVars == <<hnsw, metric, hist, found>>

VARIABLES
    \* ---- one MMapStorage (SpecMmap) ----
    mmap,       \* the file's bytes (file and mapping have one length), the
                \* size field and the write position
    mmTask,     \* each task's position inside append
    mmLog,      \* the appends that have ended, in that order: data and outcome
    mmOverlap,  \* some append began while another was in flight
    mmRet       \* what the latest append, read or iteration returned

mmVars == <<mmap, mmTask, mmLog, mmOverlap, mmRet>>

VARIABLES
    \* ---- RecoveryManager::recover_from_wal on its own (SpecRecovery) ----
    recWal,     \* the operations read_all returns
    recDisk,    \* the collection directories on disk
    recOut      \* what recover_from_wal returned (NotRecovered: not called)

recVars == <<recWal, recDisk, recOut>>

VARIABLES
    \* ---- the locks of one index and of one MMapStorage (SpecIndexLocks,
    \* SpecMmapLocks) ----
    held,       \* each lock: the task holding it for writing (0: none) and the
                \* tasks holding it for reading
    ltask,      \* each task's call and its position in the code
    graph       \* the index's graph: the completed mutations, whether one is
                \* under way, the number of nodes

lockVars == <<held, ltask, graph>>

vars == <<storeVars, walVars, hnswVars, mmVars, recVars, lockVars>>

(***************************************************************************)
(* Values.                                                                 *)
(***************************************************************************)
Vectors == [id : Ids, len : Lens]
\* the vector lists batch_insert is called with
Batches == {<<>>} \cup {<<[id |-> 1, len |-> 1], [id |-> 2, len |-> l]>> : l \in Lens}
Limits == {1, 2}

NoIndex == [dimension |-> 0, nodes |-> [i \in Ids |-> 0]]

\* HnswIndex::new at store level: the node table (id -> vector length, 0: absent)
NewIndex(d) == [dimension |-> d, nodes |-> [i \in Ids |-> 0]]

IdleTask == [pc |-> "idle", op |-> "none", col |-> "a", id |-> 0, len |-> 0,
             vecs |-> <<>>, cfgDim |-> 0, handle |-> 0, walDone |-> FALSE,
             touched |-> FALSE, limit |-> 0, snap |-> NoIndex, walAt |-> 0,
             alone |-> FALSE, afterStart |-> FALSE, locks |-> {},
             deleted |-> FALSE]

\* a step that returns nothing to a caller
NoReturn == [op |-> "none", result |-> "none", call |-> IdleTask, hits |-> {},
             inflight |-> {}]

\* WALOperation variants, as records of one shape
OpCreateCollection(c, d) ==
    [op |-> "CreateCollection", col |-> c, dim |-> d, id |-> 0, vecs |-> <<>>]
OpDeleteCollection(c) ==
    [op |-> "DeleteCollection", col |-> c, dim |-> 0, id |-> 0, vecs |-> <<>>]
OpInsertVector(c, v) ==
    [op |-> "InsertVector", col |-> c, dim |-> 0, id |-> 0, vecs |-> <<v>>]
OpBatchInsert(c, vs) ==
    [op |-> "BatchInsert", col |-> c, dim |-> 0, id |-> 0, vecs |-> vs]
OpDeleteVector(c, i) ==
    [op |-> "DeleteVector", col |-> c, dim |-> 0, id |-> i, vecs |-> <<>>]

(***************************************************************************)
(* CollectionStorage (storage/src/lib.rs).                                 *)
(***************************************************************************)
\* CollectionStorage::new: the object; recs is what this object has appended
\* to its data file (MMapStorage starts at write position 0), each record by
\* the length of its vector
NewStorage(c, d) == [name |-> c, dim |-> d, recs |-> <<>>]

\* a handle slot holding no object
FreeStorage == [name |-> "", dim |-> 0, recs |-> <<>>]

\* Arc::new: the object takes the first free slot
Alloc(sts) == CHOOSE h \in Handles :
                 sts[h] = FreeStorage /\ \A g \in 1..(h - 1) : sts[g] # FreeStorage

\* Arc drop: an object neither the registry nor a task refers to is gone
Collect(sts, reg, tk) ==
    [h \in Handles |->
        IF (\E c \in Names : reg[c] = h) \/ (\E t \in Tasks : tk[t].handle = h)
        THEN sts[h] ELSE FreeStorage]

\* CollectionStorage::insert: dimension check, then data-file append
StorageInsert(s, v) ==
    IF v.len # s.dim
    THEN [ok |-> FALSE, storage |-> s]
    ELSE [ok |-> TRUE, storage |-> [s EXCEPT !.recs = Append(@, v.len)]]

\* CollectionStorage::batch_insert: loops insert, stops at the first error
RECURSIVE StorageBatchInsert(_, _)
StorageBatchInsert(s, vs) ==
    IF vs = <<>> THEN [ok |-> TRUE, storage |-> s]
    ELSE LET r == StorageInsert(s, Head(vs))
         IN IF r.ok THEN StorageBatchInsert(r.storage, Tail(vs)) ELSE r

\* a delete that reports a record of the data file as deleted
StorageDeleteTombstone(s, i) == s.recs # <<>>

\* CollectionStorage::delete: the placeholder, Ok(false) for every id
StorageDelete(s, i) == FALSE

(***************************************************************************)
(* RecoveryManager (storage/src/recovery.rs).                              *)
(***************************************************************************)
\* discover_existing_collections: directories holding vectors.bin or index.bin
DiscoverExistingCollections(d) == d

\* validate_operation: Ok or Err, and the running set of known collections
ValidateOperation(o, existing) ==
    CASE o.op = "CreateCollection" ->
            IF o.col \in existing
            THEN [ok |-> FALSE, existing |-> existing]
            ELSE [ok |-> TRUE, existing |-> existing \cup {o.col}]
      [] o.op = "DeleteCollection" ->
            IF o.col \notin existing
            THEN [ok |-> FALSE, existing |-> existing]
            ELSE [ok |-> TRUE, existing |-> existing \ {o.col}]
      [] o.op = "InsertVector" ->
            [ok |-> o.col \in existing, existing |-> existing]
      [] o.op = "BatchInsert" ->
            [ok |-> o.col \in existing
                    /\ \A k \in 1..Len(o.vecs) : o.vecs[k].len # 0,
             existing |-> existing]
      [] OTHER ->
            [ok |-> o.col \in existing, existing |-> existing]

\* validate_operations: the valid operations, in order; invalid ones skipped
RECURSIVE ValidateOperations(_, _)
ValidateOperations(ops, existing) ==
    IF ops = <<>> THEN <<>>
    ELSE LET r == ValidateOperation(Head(ops), existing)
         IN (IF r.ok THEN <<Head(ops)>> ELSE <<>>)
            \o ValidateOperations(Tail(ops), r.existing)

\* recover_from_wal
RecoverFromWal(ops, d) ==
    IF ops = <<>> THEN ops
    ELSE ValidateOperations(ops, DiscoverExistingCollections(d))

(***************************************************************************)
(* StorageEngine::recover / apply_operation (storage/src/lib.rs).          *)
(***************************************************************************)
\* WriteAheadLog::append as seen by the engine: the entry is in the log
WalAppend(w, o) == Append(w, o)

\* a replay that logs the operation as a live write does
ApplyOperationLogged(o, st) == [st EXCEPT !.wal = WalAppend(@, o)]

\* apply_operation on the engine being constructed (its collections, the
\* disk and the WAL file); ok = FALSE is Err
ApplyOperation(o, st) ==
    CASE o.op = "CreateCollection" ->
            LET h == Alloc(st.storages) IN
            [st EXCEPT !.dirs = @ \cup {o.col},
                       !.storages[h] = NewStorage(o.col, o.dim),
                       !.registry[o.col] = h]
      [] o.op = "DeleteCollection" ->
            IF st.registry[o.col] = 0 THEN st
            ELSE [st EXCEPT !.storages[st.registry[o.col]] = FreeStorage,
                            !.registry[o.col] = 0]
      [] o.op \in {"InsertVector", "BatchInsert"} ->
            LET h == st.registry[o.col] IN
            IF h = 0 THEN st
            ELSE LET r == StorageBatchInsert(st.storages[h], o.vecs)
                 IN [st EXCEPT !.storages[h] = r.storage, !.ok = r.ok]
      [] OTHER -> st

\* recover: applies the validated operations in order, `?` stops at an error
RECURSIVE Recover(_, _)
Recover(ops, st) ==
    IF ops = <<>> \/ ~st.ok THEN st
    ELSE Recover(Tail(ops), ApplyOperation(Head(ops), st))

\* a rebuild that finds the indexes as the killed process left them
RebuildIndexesKept(reg, sts) == indexes

\* rebuild_indexes: an empty index per registered collection
RebuildIndexes(reg, sts) ==
    [c \in Names |-> IF reg[c] = 0 THEN NoIndex ELSE NewIndex(sts[reg[c]].dim)]

(***************************************************************************)
(* Initial state: VectorStore::new on an empty data directory.             *)
(***************************************************************************)
StoreInit ==
    /\ mode = "serial"
    /\ wal = <<>>
    /\ dirs = {}
    /\ storages = [h \in Handles |-> FreeStorage]
    /\ registry = [c \in Names |-> 0]
    /\ indexes = [c \in Names |-> NoIndex]
    /\ task = [t \in Tasks |-> IdleTask]
    /\ phase = "up"
    /\ restarts = 0
    /\ walFails = 0
    /\ ret = NoReturn

(***************************************************************************)
(* Task bookkeeping.                                                       *)
(***************************************************************************)
\* the callers of the store: one in serial mode; in concurrent mode the tasks
\* are interchangeable, so a call starts in the lowest idle one
Callers == IF mode = "serial" THEN {1} ELSE Tasks
\* the collections the callers name
CallNames == IF mode = "serial" THEN Names ELSE {"a"}
\* the vectors and the query limits the callers pass
CallVectors == IF mode = "serial" THEN Vectors ELSE {v \in Vectors : v.id = 1}
CallLimits == IF mode = "serial" THEN Limits ELSE {2}
\* kills and WAL append failures are injected in serial mode, MaxFaults in all
FaultBudget == IF mode = "serial" THEN MaxFaults ELSE 0
\* no call begins once the WAL holds this many entries
WalLimit == IF mode = "serial" THEN MaxWal ELSE MaxWalConc

\* a call begins on the store VectorStore::new returned, or after the caller
\* has taken the previous call's return value
CanStart(t) ==
    /\ t \in Callers
    /\ task[t].pc = "idle"
    /\ \A u \in 1..(t - 1) : task[u].pc # "idle"
    /\ phase = "up"
    /\ ret.op \in {"none", "startup"}

\* a call a task begins, with its arguments
Begin(o, c, i, l, vs) ==
    [IdleTask EXCEPT !.op = o, !.col = c, !.id = i, !.len = l, !.vecs = vs]

\* the call with locals tk returns res (and, for a query, its results)
Returned(tk, res, hs) ==
    [op |-> tk.op, result |-> res, call |-> tk, hits |-> hs, inflight |-> {}]


\* The guards of the two registry locks, StorageEngine.collections and
\* VectorStore.indexes, that the code running from position pc takes, each
\* with its scope in the source: "block" is a guard bound inside an inner
\* block, "temporary" one that lives for a statement
\* (self.collections.write().insert(..)), "function" one bound by a let of
\* the function body (let mut indexes = self.indexes.write();).
GuardsTaken(pc, tk) ==
    LET collections(sc) == {[lock |-> "collections", scope |-> sc]}
        indexes_(sc) == {[lock |-> "indexes", scope |-> sc]}
    IN CASE pc = "idle" ->
              IF tk.op = "batch_insert" /\ tk.vecs = <<>> THEN {}
              ELSE collections("block")
         [] pc \in {"ins_lookup", "upd_insert"} -> collections("block")
         [] pc \in {"cc_register", "dc_unregister"} -> collections("temporary")
         [] pc \in {"cc_index", "dc_index"} -> indexes_("temporary")
         [] pc \in {"ins_index", "del_index", "q_search"} -> indexes_("function")
         [] OTHER -> {}

\* guards that all live until the function that took them returns
ScopeEndsAtReturn(scope, returns) == returns

\* whether a guard of this scope is dropped by the end of the code that took
\* it; returns tells whether that code runs to the end of its function
ScopeEnds(scope, returns) ==
    CASE scope = "block" -> TRUE
      [] scope = "temporary" -> TRUE
      [] OTHER -> returns

\* whether the code running from pc with outcome res runs to the end of the
\* function it is in: the call returns, or VectorStore::delete returns to
\* VectorStore::update
EndsFunction(pc, res) == res # "none" \/ pc = "del_index"

\* the locks task t holds when the code it runs from its position reaches the
\* next suspension point or returns res
LocksHeld(t, tk, res) ==
    (task[t].locks \cup {g.lock : g \in GuardsTaken(task[t].pc, tk)})
        \ {g.lock : g \in {x \in GuardsTaken(task[t].pc, tk) :
                                ScopeEnds(x.scope, EndsFunction(task[t].pc, res))}}

\* one step of task t: its locals become tk; with res # "none" the call returns
Step(t, tk, res, hs) ==
    /\ IF res = "none"
       THEN /\ task' = [task EXCEPT ![t] = [tk EXCEPT !.locks = LocksHeld(t, tk, res)]]
            /\ ret' = NoReturn
       ELSE /\ task' = [task EXCEPT ![t] = IdleTask]
            /\ ret' = Returned([tk EXCEPT !.locks = LocksHeld(t, tk, res)], res, hs)
    /\ UNCHANGED <<walVars, hnswVars, mmVars, recVars, lockVars>>

\* self.wal.append(&op).await?: the entry is logged and the call goes on at
\* `next`, or the append fails and the call returns the error
WalStep(t, o, next) ==
    \/ /\ wal' = WalAppend(wal, o)
       /\ Step(t, [task[t] EXCEPT !.pc = next, !.walDone = TRUE], "none", {})
       /\ UNCHANGED walFails
    \/ /\ restarts + walFails < FaultBudget
       /\ walFails' = walFails + 1
       /\ Step(t, task[t], "Io", {})
       /\ UNCHANGED wal

(***************************************************************************)
(* create_collection (vectorstore/src/lib.rs 34-52, storage/src/lib.rs     *)
(* 43-67).                                                                 *)
(***************************************************************************)
\* create_collection without the contains_key check
CreateCollectionNoCheck(t, c, d) ==
    /\ CanStart(t) /\ Len(wal) < WalLimit
    /\ Step(t, [Begin("create_collection", c, 0, d, <<>>) EXCEPT !.pc = "cc_storage"],
            "none", {})
    /\ UNCHANGED <<wal, dirs, storages, registry, indexes, phase, restarts, walFails, mode>>

CreateCollectionCheck(t, c, d) ==
    /\ CanStart(t) /\ Len(wal) < WalLimit
    /\ LET b == Begin("create_collection", c, 0, d, <<>>) IN
       IF registry[c] # 0
       THEN Step(t, b, "CollectionAlreadyExists", {})
       ELSE Step(t, [b EXCEPT !.pc = "cc_storage"], "none", {})
    /\ UNCHANGED <<wal, dirs, storages, registry, indexes, phase, restarts, walFails, mode>>

\* CollectionStorage::new: create_dir_all, vectors.bin, index.bin
CreateCollectionStorage(t) ==
    /\ task[t].pc = "cc_storage"
    /\ LET h == Alloc(storages) IN
       /\ dirs' = dirs \cup {task[t].col}
       /\ storages' = [storages EXCEPT ![h] = NewStorage(task[t].col, task[t].len)]
       /\ Step(t, [task[t] EXCEPT !.pc = "cc_wal", !.handle = h,
                                  !.touched = @ \/ task[t].col \notin dirs],
               "none", {})
    /\ UNCHANGED <<wal, registry, indexes, phase, restarts, walFails, mode>>

CreateCollectionWal(t) ==
    /\ task[t].pc = "cc_wal"
    /\ WalStep(t, OpCreateCollection(task[t].col, task[t].len), "cc_register")
    /\ storages' = Collect(storages, registry, task')
    /\ UNCHANGED <<dirs, registry, indexes, phase, restarts, mode>>

\* self.collections.write().insert(name, storage)
CreateCollectionRegister(t) ==
    /\ task[t].pc = "cc_register"
    /\ registry' = [registry EXCEPT ![task[t].col] = task[t].handle]
    /\ Step(t, [task[t] EXCEPT !.pc = "cc_index", !.handle = 0, !.touched = TRUE],
            "none", {})
    /\ storages' = Collect(storages, registry', task')
    /\ UNCHANGED <<wal, dirs, indexes, phase, restarts, walFails, mode>>

\* self.indexes.write().insert(name, HnswIndex::new(..))
CreateCollectionIndex(t) ==
    /\ task[t].pc = "cc_index"
    /\ indexes' = [indexes EXCEPT ![task[t].col] = NewIndex(task[t].len)]
    /\ Step(t, [task[t] EXCEPT !.touched = TRUE], "Ok", {})
    /\ UNCHANGED <<wal, dirs, storages, registry, phase, restarts, walFails, mode>>

(***************************************************************************)
(* delete_collection (vectorstore/src/lib.rs 55-64, storage/src/lib.rs     *)
(* 69-95).                                                                 *)
(***************************************************************************)
DeleteCollectionCheck(t, c) ==
    /\ CanStart(t) /\ Len(wal) < WalLimit
    /\ LET b == Begin("delete_collection", c, 0, 0, <<>>) IN
       IF registry[c] = 0
       THEN Step(t, b, "CollectionNotFound", {})
       ELSE Step(t, [b EXCEPT !.pc = "dc_wal"], "none", {})
    /\ UNCHANGED <<wal, dirs, storages, registry, indexes, phase, restarts, walFails, mode>>

DeleteCollectionWal(t) ==
    /\ task[t].pc = "dc_wal"
    /\ WalStep(t, OpDeleteCollection(task[t].col), "dc_unregister")
    /\ UNCHANGED <<dirs, storages, registry, indexes, phase, restarts, mode>>

\* self.collections.write().remove(name)
DeleteCollectionUnregister(t) ==
    /\ task[t].pc = "dc_unregister"
    /\ registry' = [registry EXCEPT ![task[t].col] = 0]
    /\ Step(t, [task[t] EXCEPT !.pc = "dc_rmdir",
                               !.touched = @ \/ registry[task[t].col] # 0],
            "none", {})
    /\ storages' = Collect(storages, registry', task')
    /\ UNCHANGED <<wal, dirs, indexes, phase, restarts, walFails, mode>>

\* if collection_dir.exists() { remove_dir_all }
DeleteCollectionRemoveDir(t) ==
    /\ task[t].pc = "dc_rmdir"
    /\ dirs' = dirs \ {task[t].col}
    /\ Step(t, [task[t] EXCEPT !.pc = "dc_index",
                               !.touched = @ \/ task[t].col \in dirs],
            "none", {})
    /\ UNCHANGED <<wal, storages, registry, indexes, phase, restarts, walFails, mode>>

\* self.indexes.write().remove(name)
DeleteCollectionIndex(t) ==
    /\ task[t].pc = "dc_index"
    /\ indexes' = [indexes EXCEPT ![task[t].col] = NoIndex]
    /\ Step(t, [task[t] EXCEPT !.touched = @ \/ indexes[task[t].col] # NoIndex],
            "Ok", {})
    /\ UNCHANGED <<wal, dirs, storages, registry, phase, restarts, walFails, mode>>

(***************************************************************************)
(* The index as the vector store sees it (index/src/hnsw.rs): the node     *)
(* table. The graph itself is the subject of SpecHnsw.                     *)
(***************************************************************************)
\* an insert into the index without the dimension check
IndexInsertUnchecked(ix, v) ==
    [ok |-> TRUE, index |-> [ix EXCEPT !.nodes[v.id] = v.len]]

\* HnswIndex::insert: dimension check, then nodes.insert(id, node)
IndexInsert(ix, v) ==
    IF v.len # ix.dimension
    THEN [ok |-> FALSE, index |-> ix]
    ELSE [ok |-> TRUE, index |-> [ix EXCEPT !.nodes[v.id] = v.len]]

\* for vector in vectors { index.insert(..)?; }
RECURSIVE IndexInsertAll(_, _)
IndexInsertAll(ix, vs) ==
    IF vs = <<>> THEN [ok |-> TRUE, index |-> ix]
    ELSE LET r == IndexInsert(ix, Head(vs))
         IN IF r.ok THEN IndexInsertAll(r.index, Tail(vs)) ELSE r

\* HnswIndex::delete: nodes.remove(id)
IndexDelete(ix, i) == [ix EXCEPT !.nodes[i] = 0]

\* a search that does not look its candidates up in the node table
IndexSearchUnguarded(ix, k) == {S \in SUBSET Ids : Cardinality(S) <= k}

\* HnswIndex::search: every result is a node of the table (nodes.get(&candidate.id)
\* guards each push), at most `limit` of them
IndexSearch(ix, k) ==
    {S \in SUBSET {i \in Ids : ix.nodes[i] # 0} : Cardinality(S) <= k}

(***************************************************************************)
(* insert and batch_insert (vectorstore/src/lib.rs 67-137,                 *)
(* storage/src/lib.rs 97-143, 322-343).                                    *)
(***************************************************************************)
\* the head of insert without the dimension check
ValidateVectorsUnchecked(t, o, c, vs) ==
    LET b == [Begin(o, c, 0, 0, vs) EXCEPT !.walAt = Len(wal)]
        cfg == IF registry[c] = 0 THEN 0 ELSE storages[registry[c]].dim
    IN IF registry[c] = 0 THEN Step(t, b, "CollectionNotFound", {})
       ELSE Step(t, [b EXCEPT !.cfgDim = cfg, !.pc = "ins_lookup"], "none", {})

\* the shared head of both: resolve the config, validate every dimension
ValidateVectors(t, o, c, vs) ==
    LET b == [Begin(o, c, 0, 0, vs) EXCEPT !.walAt = Len(wal)]
        cfg == IF registry[c] = 0 THEN 0 ELSE storages[registry[c]].dim
    IN IF registry[c] = 0 THEN Step(t, b, "CollectionNotFound", {})
       ELSE IF \E k \in 1..Len(vs) : vs[k].len # cfg
       THEN Step(t, [b EXCEPT !.cfgDim = cfg], "InvalidDimension", {})
       ELSE Step(t, [b EXCEPT !.cfgDim = cfg, !.pc = "ins_lookup"], "none", {})

InsertValidate(t, c, v) ==
    /\ CanStart(t) /\ Len(wal) < WalLimit
    /\ ValidateVectors(t, "insert", c, <<v>>)
    /\ UNCHANGED <<wal, dirs, storages, registry, indexes, phase, restarts, walFails, mode>>

BatchInsertValidate(t, c, vs) ==
    /\ CanStart(t) /\ Len(wal) < WalLimit
    /\ IF vs = <<>>
       THEN Step(t, Begin("batch_insert", c, 0, 0, vs), "Ok", {})
       ELSE ValidateVectors(t, "batch_insert", c, vs)
    /\ UNCHANGED <<wal, dirs, storages, registry, indexes, phase, restarts, walFails, mode>>

\* StorageEngine::insert_vector / batch_insert: clone the handle out of the registry
InsertLookup(t) ==
    /\ task[t].pc = "ins_lookup"
    /\ IF registry[task[t].col] = 0
       THEN Step(t, task[t], "CollectionNotFound", {})
       ELSE Step(t, [task[t] EXCEPT !.pc = "ins_wal",
                                    !.handle = registry[task[t].col]], "none", {})
    /\ UNCHANGED <<wal, dirs, storages, registry, indexes, phase, restarts, walFails, mode>>

InsertWal(t) ==
    /\ task[t].pc = "ins_wal"
    /\ WalStep(t, IF task[t].op # "batch_insert"
                  THEN OpInsertVector(task[t].col, task[t].vecs[1])
                  ELSE OpBatchInsert(task[t].col, task[t].vecs), "ins_storage")
    /\ storages' = Collect(storages, registry, task')
    /\ UNCHANGED <<dirs, registry, indexes, phase, restarts, mode>>

\* storage.insert(vector) / storage.batch_insert(vectors) on the cloned handle
InsertStorage(t) ==
    /\ task[t].pc = "ins_storage"
    /\ LET h == task[t].handle
           r == StorageBatchInsert(storages[h], task[t].vecs)
           u == [task[t] EXCEPT !.touched = @ \/ r.storage # storages[h],
                                !.handle = 0]
       IN /\ IF ~r.ok THEN Step(t, u, "InvalidDimension", {})
             ELSE IF task[t].op = "insert_vector" THEN Step(t, u, "Ok", {})
             ELSE Step(t, [u EXCEPT !.pc = "ins_index"], "none", {})
          /\ storages' = Collect([storages EXCEPT ![h] = r.storage], registry, task')
    /\ UNCHANGED <<wal, dirs, registry, indexes, phase, restarts, walFails, mode>>

\* if let Some(index) = indexes.get_mut(collection) { index.insert(..)? }
InsertIndex(t) ==
    /\ task[t].pc = "ins_index"
    /\ LET ix == indexes[task[t].col]
           r == IF ix = NoIndex THEN [ok |-> TRUE, index |-> ix]
                ELSE IndexInsertAll(ix, task[t].vecs)
       IN /\ indexes' = [indexes EXCEPT ![task[t].col] = r.index]
          /\ Step(t, [task[t] EXCEPT !.touched = @ \/ r.index # ix],
                  IF r.ok THEN "Ok" ELSE "InvalidDimension", {})
    /\ UNCHANGED <<wal, dirs, storages, registry, phase, restarts, walFails, mode>>

(***************************************************************************)
(* delete (vectorstore/src/lib.rs 184-197, storage/src/lib.rs 160-180,     *)
(* 351-355).                                                               *)
(***************************************************************************)
\* StorageEngine::delete_vector: clone the handle out of the registry
DeleteLookup(t, c, i) ==
    /\ CanStart(t) /\ Len(wal) < WalLimit
    /\ LET b == [Begin("delete", c, i, 0, <<>>) EXCEPT
                    !.snap = indexes[c], !.walAt = Len(wal)] IN
       IF registry[c] = 0
       THEN Step(t, b, "CollectionNotFound", {})
       ELSE Step(t, [b EXCEPT !.pc = "del_wal", !.handle = registry[c]], "none", {})
    /\ UNCHANGED <<wal, dirs, storages, registry, indexes, phase, restarts, walFails, mode>>

\* wal.append, then storage.delete(id), the placeholder that returns Ok(false)
DeleteWal(t) ==
    /\ task[t].pc = "del_wal"
    /\ \/ /\ wal' = WalAppend(wal, OpDeleteVector(task[t].col, task[t].id))
          /\ Step(t, [task[t] EXCEPT
                         !.pc = "del_index", !.walDone = TRUE, !.handle = 0,
                         !.deleted = StorageDelete(storages[task[t].handle], task[t].id)],
                  "none", {})
          /\ UNCHANGED walFails
       \/ /\ restarts + walFails < FaultBudget
          /\ walFails' = walFails + 1
          /\ Step(t, task[t], "Io", {})
          /\ UNCHANGED wal
    /\ storages' = Collect(storages, registry, task')
    /\ UNCHANGED <<dirs, registry, indexes, phase, restarts, mode>>

\* if let Some(index) = indexes.get_mut(collection) { index.delete(id)? }
\* Ok(storage_deleted)
DeleteIndex(t) ==
    /\ task[t].pc = "del_index"
    /\ LET ix == indexes[task[t].col]
           nx == IF ix = NoIndex THEN ix ELSE IndexDelete(ix, task[t].id)
       IN /\ indexes' = [indexes EXCEPT ![task[t].col] = nx]
          /\ IF task[t].op = "update"
             THEN Step(t, [task[t] EXCEPT !.touched = @ \/ nx # ix,
                                          !.pc = "upd_insert"], "none", {})
             ELSE Step(t, [task[t] EXCEPT !.touched = @ \/ nx # ix],
                       IF task[t].deleted THEN "Ok(true)" ELSE "Ok(false)", {})
    /\ UNCHANGED <<wal, dirs, storages, registry, phase, restarts, walFails, mode>>

(***************************************************************************)
(* update (vectorstore/src/lib.rs 200-209): delete(collection, id), then   *)
(* insert(collection, vector), each through its own steps.                 *)
(***************************************************************************)
\* an update that goes to its insert without the delete
UpdateInsertOnly(t, c, v) ==
    /\ CanStart(t) /\ Len(wal) + 1 < WalLimit
    /\ LET b == [Begin("update", c, v.id, 0, <<v>>) EXCEPT
                    !.snap = indexes[c], !.walAt = Len(wal)]
       IN Step(t, [b EXCEPT !.pc = "upd_insert"], "none", {})
    /\ UNCHANGED <<wal, dirs, storages, registry, indexes, phase, restarts, walFails, mode>>

\* self.delete(collection, &vector.id): StorageEngine::delete_vector's lookup
UpdateDeleteLookup(t, c, v) ==
    /\ CanStart(t) /\ Len(wal) + 1 < WalLimit
    /\ LET b == [Begin("update", c, v.id, 0, <<v>>) EXCEPT
                    !.snap = indexes[c], !.walAt = Len(wal)] IN
       IF registry[c] = 0
       THEN Step(t, b, "CollectionNotFound", {})
       ELSE Step(t, [b EXCEPT !.pc = "del_wal", !.handle = registry[c]], "none", {})
    /\ UNCHANGED <<wal, dirs, storages, registry, indexes, phase, restarts, walFails, mode>>

\* self.insert(collection, vector): resolve the config, validate the dimension
UpdateInsertValidate(t) ==
    /\ task[t].pc = "upd_insert"
    /\ LET c == task[t].col
           cfg == IF registry[c] = 0 THEN 0 ELSE storages[registry[c]].dim
       IN IF registry[c] = 0 THEN Step(t, task[t], "CollectionNotFound", {})
          ELSE IF task[t].vecs[1].len # cfg
          THEN Step(t, [task[t] EXCEPT !.cfgDim = cfg], "InvalidDimension", {})
          ELSE Step(t, [task[t] EXCEPT !.cfgDim = cfg, !.pc = "ins_lookup"],
                    "none", {})
    /\ UNCHANGED <<wal, dirs, storages, registry, indexes, phase, restarts, walFails, mode>>

(***************************************************************************)
(* StorageEngine::insert_vector called on the engine itself                *)
(* (storage/src/lib.rs 97-119): no vector store in front of it, so no      *)
(* dimension check before the WAL append and no index to update.           *)
(***************************************************************************)
EngineInsertVector(t, c, v) ==
    /\ CanStart(t) /\ Len(wal) < WalLimit
    /\ LET b == Begin("insert_vector", c, 0, 0, <<v>>) IN
       IF registry[c] = 0
       THEN Step(t, b, "CollectionNotFound", {})
       ELSE Step(t, [b EXCEPT !.pc = "ins_wal", !.handle = registry[c]], "none", {})
    /\ UNCHANGED <<wal, dirs, storages, registry, indexes, phase, restarts, walFails, mode>>

(***************************************************************************)
(* query (vectorstore/src/lib.rs 140-181).                                 *)
(***************************************************************************)
\* resolve the config, validate the query vector's dimension
QueryValidate(t, c, l, k) ==
    /\ CanStart(t)
    /\ LET b == [Begin("query", c, 0, l, <<>>) EXCEPT
                    !.limit = k, !.snap = indexes[c], !.walAt = Len(wal),
                    !.afterStart = (ret.op = "startup"),
                    !.alone = \A u \in Tasks \ {t} :
                                 task[u].op \in {"none", "delete_collection"}]
           cfg == IF registry[c] = 0 THEN 0 ELSE storages[registry[c]].dim
       IN IF registry[c] = 0 THEN Step(t, b, "CollectionNotFound", {})
          ELSE IF l # cfg
          THEN Step(t, [b EXCEPT !.cfgDim = cfg], "InvalidDimension", {})
          ELSE Step(t, [b EXCEPT !.cfgDim = cfg, !.pc = "q_search"], "none", {})
    /\ UNCHANGED <<wal, dirs, storages, registry, indexes, phase, restarts, walFails, mode>>

\* indexes.read().get(collection), index.search(vector, limit, ef_search)
QuerySearch(t) ==
    /\ task[t].pc = "q_search"
    /\ LET ix == indexes[task[t].col] IN
       IF ix = NoIndex THEN Step(t, task[t], "CollectionNotFound", {})
       ELSE IF task[t].len # ix.dimension
       THEN Step(t, task[t], "InvalidDimension", {})
       ELSE \E S \in IndexSearch(ix, task[t].limit) : Step(t, task[t], "Ok", S)
    /\ UNCHANGED <<wal, dirs, storages, registry, indexes, phase, restarts, walFails, mode>>

(***************************************************************************)
(* Kill and restart: VectorStore::new on the same data directory           *)
(* (vectorstore/src/lib.rs 19-31, storage/src/lib.rs 24-41, 231-242).      *)
(***************************************************************************)
Restart ==
    /\ phase = "up" /\ restarts + walFails < FaultBudget
    /\ LET st0 == [registry |-> [c \in Names |-> 0],
                   storages |-> [h \in Handles |-> FreeStorage],
                   dirs |-> dirs, wal |-> wal, ok |-> TRUE]
           st == Recover(RecoverFromWal(wal, dirs), st0)
       IN /\ dirs' = st.dirs
          /\ wal' = st.wal
          /\ phase' = IF st.ok THEN "up" ELSE "failed"
          /\ registry' = IF st.ok THEN st.registry ELSE st0.registry
          /\ storages' = IF st.ok THEN st.storages ELSE st0.storages
          /\ indexes' = IF st.ok THEN RebuildIndexes(st.registry, st.storages)
                        ELSE [c \in Names |-> NoIndex]
          /\ ret' = [NoReturn EXCEPT
                        !.op = "startup",
                        !.result = IF st.ok THEN "Ok" ELSE "Err",
                        !.inflight = {task[t].col : t \in {u \in Tasks :
                            task[u].op \in {"create_collection", "delete_collection"}}}]
    /\ task' = [t \in Tasks |-> IdleTask]
    /\ restarts' = restarts + 1
    /\ UNCHANGED <<walFails, mode, walVars, hnswVars, mmVars, recVars, lockVars>>

\* the caller takes the value the latest call returned
ReturnTaken ==
    /\ ret.op \notin {"none", "startup"}
    /\ ret' = NoReturn
    /\ UNCHANGED <<wal, dirs, storages, registry, indexes, task, phase, restarts,
                   walFails, mode, walVars, hnswVars, mmVars, recVars, lockVars>>

StoreCalls ==
    \/ \E t \in Tasks, c \in CallNames, d \in Dims : CreateCollectionCheck(t, c, d)
    \/ \E t \in Tasks : CreateCollectionStorage(t)
    \/ \E t \in Tasks : CreateCollectionWal(t)
    \/ \E t \in Tasks : CreateCollectionRegister(t)
    \/ \E t \in Tasks : CreateCollectionIndex(t)
    \/ \E t \in Tasks, c \in CallNames : DeleteCollectionCheck(t, c)
    \/ \E t \in Tasks : DeleteCollectionWal(t)
    \/ \E t \in Tasks : DeleteCollectionUnregister(t)
    \/ \E t \in Tasks : DeleteCollectionRemoveDir(t)
    \/ \E t \in Tasks : DeleteCollectionIndex(t)
    \/ \E t \in Tasks, c \in CallNames, v \in CallVectors : InsertValidate(t, c, v)
    \/ \E t \in Tasks, c \in CallNames, vs \in Batches : BatchInsertValidate(t, c, vs)
    \/ \E t \in Tasks : InsertLookup(t)
    \/ \E t \in Tasks : InsertWal(t)
    \/ \E t \in Tasks : InsertStorage(t)
    \/ \E t \in Tasks : InsertIndex(t)
    \/ \E t \in Tasks, c \in CallNames, i \in Ids : DeleteLookup(t, c, i)
    \/ \E t \in Tasks : DeleteWal(t)
    \/ \E t \in Tasks : DeleteIndex(t)
    \/ \E t \in Tasks, c \in CallNames, l \in Lens, k \in CallLimits : QueryValidate(t, c, l, k)
    \/ \E t \in Tasks : QuerySearch(t)
    \/ \E t \in Tasks, c \in CallNames, v \in CallVectors : UpdateDeleteLookup(t, c, v)
    \/ \E t \in Tasks : UpdateInsertValidate(t)
    \/ \E t \in Tasks, c \in CallNames, v \in CallVectors : EngineInsertVector(t, c, v)
    \/ ReturnTaken

StoreNext ==
    \/ StoreCalls
    \/ Restart

(***************************************************************************)
(* Properties of the store (Spec).                                         *)
(***************************************************************************)
\* the latest CreateCollection or DeleteCollection entry of the WAL for c
RECURSIVE LastCollectionOp(_, _)
LastCollectionOp(w, c) ==
    IF w = <<>> THEN OpDeleteCollection(c)
    ELSE IF w[Len(w)].col = c
            /\ w[Len(w)].op \in {"CreateCollection", "DeleteCollection"}
         THEN w[Len(w)]
         ELSE LastCollectionOp(SubSeq(w, 1, Len(w) - 1), c)

\* the ids the WAL records as inserted into c
WalInsertedIds(c) ==
    UNION {{wal[k].vecs[j].id : j \in 1..Len(wal[k].vecs)} :
              k \in {n \in 1..Len(wal) :
                        /\ wal[n].col = c
                        /\ wal[n].op \in {"InsertVector", "BatchInsert"}}}

\* C1: after create_collection(c) has succeeded (only inserts follow) and the
\* process is killed, the store opened on the same directory lists c with the
\* dimension it was created with.
C1_CreatedCollectionSurvivesRestart ==
    ret.op = "startup" =>
        \A c \in Names :
            LET o == LastCollectionOp(wal, c) IN
            (o.op = "CreateCollection" /\ c \notin ret.inflight) =>
                /\ phase = "up"
                /\ registry[c] # 0
                /\ storages[registry[c]].dim = o.dim

\* C2: a call changes the disk, the registry or an index only after its WAL
\* append has completed.
C2_WalAppendBeforeEffects ==
    /\ \A t \in Tasks : task[t].touched => task[t].walDone
    /\ ret.call.touched => ret.call.walDone

\* C3: a write whose WAL append failed returns the error having changed
\* neither the disk nor the registry nor an index.
C3_WalErrorLeavesStateUntouched ==
    ret.result = "Io" => ~ret.call.touched

\* C8: every id a query returns is an id the WAL records as inserted into the
\* collection queried.
C8_QueryReturnsInsertedIds ==
    (ret.op = "query" /\ ret.result = "Ok") =>
        ret.hits \subseteq WalInsertedIds(ret.call.col)

\* C8 witness: a query returned a hit while another collection exists and an
\* id was never inserted into the collection queried.
C8_Witness ==
    /\ ret.op = "query" /\ ret.result = "Ok" /\ ret.hits # {}
    /\ \E c \in Names \ {ret.call.col} : registry[c] # 0
    /\ Ids \ WalInsertedIds(ret.call.col) # {}

\* C10: an insert whose vector length differs from the dimension of the config
\* it resolved fails with InvalidDimension before any WAL append, data-file
\* write or index change; an insert whose length matches succeeds (barring a
\* WAL failure) with the entry logged and the node in the index.
C10_InsertDimensionCheck ==
    (ret.op = "insert" /\ ret.call.cfgDim # 0) =>
        LET v == ret.call.vecs[1] IN
        /\ v.len # ret.call.cfgDim =>
              /\ ret.result = "InvalidDimension"
              /\ ~ret.call.walDone
              /\ ~ret.call.touched
        /\ (v.len = ret.call.cfgDim /\ ret.result # "Io") =>
              /\ ret.result = "Ok"
              /\ ret.call.walDone
              /\ wal[Len(wal)] = OpInsertVector(ret.call.col, v)
              /\ indexes[ret.call.col].nodes[v.id] = v.len

\* C10 witness: a dimension-mismatched insert was rejected while another
\* collection has the vector's dimension.
C10_Witness ==
    /\ ret.op = "insert" /\ ret.result = "InvalidDimension"
    /\ \E c \in Names \ {ret.call.col} :
          registry[c] # 0 /\ storages[registry[c]].dim = ret.call.vecs[1].len

\* C11: insert, batch_insert (with any vector list, the empty one included),
\* update and delete on a collection name that is not registered fail with
\* CollectionNotFound and append nothing to the WAL.
C11_WriteToUnknownCollectionFails ==
    (/\ ret.op \in {"insert", "batch_insert", "update", "delete"}
     /\ registry[ret.call.col] = 0)
    => (ret.result = "CollectionNotFound" /\ ~ret.call.walDone)

\* the WAL entries appended since the call that just returned began
WalSince == SubSeq(wal, ret.call.walAt + 1, Len(wal))

\* the call that just returned is a query, of the dimension of the config it
\* resolved, that ran next to delete_collection and nothing else: the other
\* tasks were idle or inside delete_collection when it began, and what was
\* logged since is DeleteCollection, at least once
QueryRacedDeleteOnly ==
    /\ ret.op = "query" /\ ret.call.cfgDim = ret.call.len /\ ret.call.alone
    /\ WalSince # <<>>
    /\ \A k \in 1..Len(WalSince) : WalSince[k].op = "DeleteCollection"

\* C12: a query that runs concurrently with delete_collection of its
\* collection returns results computed from the index as it was before the
\* delete, or fails with CollectionNotFound; it never panics.
C12_QueryDuringDeleteCollection ==
    QueryRacedDeleteOnly =>
        \/ ret.result = "CollectionNotFound"
        \/ /\ ret.result = "Ok"
           /\ ret.hits \in IndexSearch(ret.call.snap, ret.call.limit)

\* C13: create_collection with a registered name returns
\* CollectionAlreadyExists from its first step, having appended no WAL entry
\* and changed neither the registry nor the disk nor an index; a call that
\* proceeds past the check found the name unregistered.
C13_DuplicateCreateRejected ==
    [][/\ \A t \in Tasks :
            (task[t].pc = "idle" /\ task'[t].pc = "cc_storage")
            => registry[task'[t].col] = 0
       /\ (ret'.op = "create_collection" /\ ret'.call.pc = "idle")
            => /\ registry[ret'.call.col] # 0
               /\ ret'.result = "CollectionAlreadyExists"
               /\ UNCHANGED <<wal, dirs, storages, registry, indexes>>]_vars

\* C13 witness: a duplicate create was rejected while the existing collection
\* holds records and has another dimension than the one asked for.
C13_Witness ==
    /\ ret.op = "create_collection" /\ ret.result = "CollectionAlreadyExists"
    /\ registry[ret.call.col] # 0
    /\ storages[registry[ret.call.col]].dim # ret.call.len
    /\ storages[registry[ret.call.col]].recs # <<>>

\* C14: under concurrent create_collection calls with one name, the WAL never
\* holds two CreateCollection entries for the name without a DeleteCollection
\* entry for it in between.
C14_UniqueNamesUnderConcurrency ==
    \A i, j \in 1..Len(wal) :
        (/\ i < j
         /\ wal[i].op = "CreateCollection" /\ wal[j].op = "CreateCollection"
         /\ wal[i].col = wal[j].col)
        => \E k \in (i + 1)..(j - 1) :
              wal[k].op = "DeleteCollection" /\ wal[k].col = wal[i].col

\* C24: in every state reached by concurrent inserts, batch inserts, deletes
\* and creations of the collection with another dimension, each node of an
\* index has the length of that index's dimension and each record a storage
\* object appended to its data file has the length of that object's dimension.
C24_StoredLengthIsObjectDimension ==
    /\ \A c \in Names, i \in Ids :
          indexes[c].nodes[i] \in {0, indexes[c].dimension}
    /\ \A h \in Handles :
          \A k \in 1..Len(storages[h].recs) : storages[h].recs[k] = storages[h].dim

\* C24 witness: an insert that passed the vector store's dimension check was
\* rejected with InvalidDimension by the storage object or the index it
\* reached, the collection having been deleted and created again since the
\* insert began.
C24_Witness ==
    /\ ret.op \in {"insert", "batch_insert"} /\ ret.result = "InvalidDimension"
    /\ ret.call.walDone
    /\ \E k, j \in 1..Len(WalSince) :
          /\ k < j
          /\ WalSince[k].op = "DeleteCollection"
          /\ WalSince[j].op = "CreateCollection"
          /\ WalSince[j].dim # ret.call.cfgDim

\* C39: whenever no create_collection or delete_collection call is under way,
\* the names registered in the storage engine are the names registered in
\* the vector store's index registry, whatever concurrent creations and
\* deletions of one name ran before.
C39_RegistriesAgree ==
    (\A t \in Tasks : task[t].op \notin {"create_collection", "delete_collection"})
        => {c \in Names : registry[c] # 0} = {c \in Names : indexes[c] # NoIndex}

\* C37: when insert or batch_insert returns Ok, every id it was given is in
\* the node table of the collection's index in the state the call returns
\* in, whatever a concurrent create_collection of that collection has done.
C37_OkInsertIsIndexed ==
    [][(ret' # ret /\ ret'.op \in {"insert", "batch_insert"} /\ ret'.result = "Ok")
        => \A k \in 1..Len(ret'.call.vecs) :
              indexes'[ret'.call.col].nodes[ret'.call.vecs[k].id] # 0]_vars

\* the positions at which a task is suspended in I/O: CollectionStorage::new
\* (create_dir_all, the two files), wal.append, remove_dir_all, the data
\* file's append
IoPoints == {"cc_storage", "cc_wal", "dc_wal", "dc_rmdir", "ins_wal",
             "ins_storage", "del_wal"}

\* C28: no task holds the collection-registry lock or the index-registry lock
\* while it is at an I/O suspension point, and no call returns holding one.
C28_NoLockAcrossIo ==
    /\ \A t \in Tasks : task[t].pc \in IoPoints => task[t].locks = {}
    /\ ret.call.locks = {}

\* C28 witness: two tasks are suspended in I/O at once, one in the data
\* file's append and one in a WAL append, each having taken and released the
\* collection-registry lock on its way.
C28_Witness ==
    /\ \E t \in Tasks : task[t].pc = "ins_storage"
    /\ \E t \in Tasks : task[t].pc \in {"cc_wal", "dc_wal"}

\* C19: startup on a WAL of complete frames written by earlier calls, calls
\* that failed after their WAL append included, succeeds: recovery skips an
\* operation it cannot apply and is never aborted by it.
C19_StartupSucceeds ==
    ret.op = "startup" => (ret.result = "Ok" /\ phase = "up")

\* C23: update(col, v) is delete(col, v.id) followed by insert(col, v): what it
\* appends to the WAL is DeleteVector(col, v.id) and then InsertVector(col, v),
\* or the part of the two its failure left; when it returns Ok both are
\* logged and the index holds the node of v.id with v's data; when its insert
\* rejects the dimension, the delete has been logged and the node is gone.
C23_UpdateIsDeleteThenInsert ==
    ret.op = "update" =>
        LET c == ret.call.col
            v == ret.call.vecs[1]
            both == <<OpDeleteVector(c, v.id), OpInsertVector(c, v)>>
        IN /\ \E n \in 0..2 : WalSince = SubSeq(both, 1, n)
           /\ ret.result = "Ok" =>
                 /\ WalSince = both
                 /\ indexes[c].nodes[v.id] = v.len
           /\ ret.result = "InvalidDimension" =>
                 /\ WalSince = <<OpDeleteVector(c, v.id)>>
                 /\ indexes[c].nodes[v.id] = 0
           /\ ret.result = "CollectionNotFound" => WalSince = <<>>

\* C23 witness: an update returned Ok for an id that was in the index when
\* the update began, in a collection holding another id too.
C23_Witness ==
    /\ ret.op = "update" /\ ret.result = "Ok"
    /\ ret.call.snap.nodes[ret.call.id] # 0
    /\ \E i \in Ids \ {ret.call.id} : indexes[ret.call.col].nodes[i] # 0

C40_DeleteReturnsFalse ==
    ret.op = "delete" =>
        LET c == ret.call.col
            i == ret.call.id
        IN /\ ret.result # "Ok(true)"
           /\ (registry[c] # 0 /\ ret.result # "Io") =>
                 /\ ret.result = "Ok(false)"
                 /\ WalSince = <<OpDeleteVector(c, i)>>
                 /\ indexes[c].nodes[i] = 0
                 /\ \A j \in Ids \ {i} : indexes[c].nodes[j] = ret.call.snap.nodes[j]

\* C40 witness: a delete of an id that was a node of the index, in a
\* collection holding a record, returned Ok(false).
C40_Witness ==
    /\ ret.op = "delete" /\ ret.result = "Ok(false)"
    /\ ret.call.snap.nodes[ret.call.id] # 0
    /\ indexes[ret.call.col].nodes[ret.call.id] = 0
    /\ storages[registry[ret.call.col]].recs # <<>>

\* C29: startup recovery leaves the WAL as it found it, whether it succeeds or
\* fails: nothing is appended, truncated or rewritten.
C29_RecoveryLeavesWal ==
    [][restarts' = restarts + 1 => wal' = wal]_vars

\* C29 witness: a startup replayed a WAL of four entries, registered a
\* collection and wrote a record to its data file.
C29_Witness ==
    /\ ret.op = "startup" /\ ret.result = "Ok" /\ Len(wal) = MaxWal
    /\ \E c \in Names : registry[c] # 0 /\ storages[registry[c]].recs # <<>>

\* C21: after a successful startup the collection directories on disk are
\* the registered collections: a collection whose last CreateCollection or
\* DeleteCollection entry in the WAL is DeleteCollection has no directory and
\* is not registered, one whose last such entry is CreateCollection has a
\* directory and is registered.
C21_DirsMatchRegistry ==
    (ret.op = "startup" /\ ret.result = "Ok") =>
        /\ dirs = {c \in Names : registry[c] # 0}
        /\ \A c \in Names :
              LET o == LastCollectionOp(wal, c) IN
              /\ o.op = "DeleteCollection" => (c \notin dirs /\ registry[c] = 0)
              /\ o.op = "CreateCollection" => (c \in dirs /\ registry[c] # 0)

\* C22: when VectorStore::new has returned, the index registry holds an index
\* for exactly the collections the storage engine lists, each of the stored
\* dimension and without a node; a query that is the first call on the new
\* store, on a listed collection and of its dimension, returns Ok with no
\* result, whatever was inserted before the shutdown.
C22_RestartLeavesIndexesEmpty ==
    /\ (ret.op = "startup" /\ ret.result = "Ok") =>
          \A c \in Names :
              IF registry[c] = 0 THEN indexes[c] = NoIndex
              ELSE /\ indexes[c] # NoIndex
                   /\ indexes[c].dimension = storages[registry[c]].dim
                   /\ \A i \in Ids : indexes[c].nodes[i] = 0
    /\ (ret.op = "query" /\ ret.call.afterStart) =>
          /\ ret.result = "Ok" => ret.hits = {}
          /\ (ret.call.cfgDim # 0 /\ ret.call.len = ret.call.cfgDim)
                => ret.result = "Ok"

\* C22 witness: the first call on the restarted store, a query, returned Ok
\* on a collection whose insert is the last entry of the WAL.
C22_Witness ==
    /\ ret.op = "query" /\ ret.call.afterStart /\ ret.result = "Ok"
    /\ wal # <<>>
    /\ wal[Len(wal)].op \in {"InsertVector", "BatchInsert"}
    /\ wal[Len(wal)].col = ret.call.col
    /\ walFails = 0

(***************************************************************************)
(* The WAL file (storage/src/wal.rs), byte by byte.                        *)
(* A frame is a 4-byte little-endian length followed by the serialized     *)
(* WALEntry.  The serialization keeps bincode's layout (fields in          *)
(* declaration order, the enum's variant index before its fields, a        *)
(* sequence's length before its elements) with one byte per scalar.        *)
(***************************************************************************)
MaxFrames == 3

Bytes == 0..255

\* the operations appended in SpecWal
WalOps == {OpCreateCollection("a", 1),
           OpDeleteCollection("a"),
           OpInsertVector("a", [id |-> 1, len |-> 2]),
           OpBatchInsert("b", <<>>),
           OpBatchInsert("a", <<[id |-> 1, len |-> 1], [id |-> 2, len |-> 1]>>),
           OpDeleteVector("b", 2)}

\* Uuid::new_v4() and the clock, reduced to one byte each
EntryUuids == {17}
Timestamps == {5}

\* u32 in big-endian byte order
ToBeBytes(n) == <<(n \div 16777216) % 256, (n \div 65536) % 256,
                  (n \div 256) % 256, n % 256>>

\* u32::to_le_bytes
ToLeBytes(n) == <<n % 256, (n \div 256) % 256, (n \div 65536) % 256,
                  (n \div 16777216) % 256>>

\* u32::from_le_bytes
FromLeBytes(b) == b[1] + 256 * b[2] + 65536 * b[3] + 16777216 * b[4]

\* a collection name on the wire
NameByte(c) == IF c = "a" THEN 97 ELSE 98
ByteName(b) == IF b = 97 THEN "a" ELSE "b"

\* a Vector on the wire: id, number of components, the components
SerializeVector(v) == <<v.id, v.len>> \o [k \in 1..v.len |-> 0]

RECURSIVE SerializeVectors(_)
SerializeVectors(vs) ==
    IF vs = <<>> THEN <<>>
    ELSE SerializeVector(Head(vs)) \o SerializeVectors(Tail(vs))

\* bincode::serialize of a WALOperation
SerializeOperation(o) ==
    CASE o.op = "CreateCollection" -> <<0, NameByte(o.col), o.dim>>
      [] o.op = "DeleteCollection" -> <<1, NameByte(o.col)>>
      [] o.op = "InsertVector" ->
            <<2, NameByte(o.col)>> \o SerializeVector(o.vecs[1])
      [] o.op = "BatchInsert" ->
            <<3, NameByte(o.col), Len(o.vecs)>> \o SerializeVectors(o.vecs)
      [] OTHER -> <<4, NameByte(o.col), o.id>>

\* bincode::serialize of a WALEntry: id, timestamp, checksum, operation
Serialize(e) == <<e.id, e.timestamp, e.checksum>> \o SerializeOperation(e.operation)

\* the entry append builds
WALEntry(u, ts, o) == [id |-> u, timestamp |-> ts, checksum |-> 0, operation |-> o]

DecodeError == [ok |-> FALSE, operation |-> OpDeleteCollection("a"), rest |-> <<>>]

\* deserialization of n Vectors from the front of b
RECURSIVE DeserializeVectors(_, _, _)
DeserializeVectors(b, n, acc) ==
    IF n = 0 THEN [ok |-> TRUE, vecs |-> acc, rest |-> b]
    ELSE IF Len(b) < 2 \/ Len(b) < 2 + b[2]
         THEN [ok |-> FALSE, vecs |-> acc, rest |-> b]
         ELSE DeserializeVectors(SubSeq(b, 3 + b[2], Len(b)), n - 1,
                                 Append(acc, [id |-> b[1], len |-> b[2]]))

\* bincode::deserialize of a WALOperation (trailing bytes are allowed)
DeserializeOperation(b) ==
    IF Len(b) < 2 \/ b[2] \notin {97, 98} THEN DecodeError
    ELSE LET c == ByteName(b[2]) IN
         CASE b[1] = 0 ->
                IF Len(b) < 3 THEN DecodeError
                ELSE [ok |-> TRUE, operation |-> OpCreateCollection(c, b[3])]
           [] b[1] = 1 -> [ok |-> TRUE, operation |-> OpDeleteCollection(c)]
           [] b[1] = 2 ->
                LET r == DeserializeVectors(SubSeq(b, 3, Len(b)), 1, <<>>)
                IN IF r.ok
                   THEN [ok |-> TRUE, operation |-> OpInsertVector(c, r.vecs[1])]
                   ELSE DecodeError
           [] b[1] = 3 ->
                IF Len(b) < 3 THEN DecodeError
                ELSE LET r == DeserializeVectors(SubSeq(b, 4, Len(b)), b[3], <<>>)
                     IN IF r.ok
                        THEN [ok |-> TRUE, operation |-> OpBatchInsert(c, r.vecs)]
                        ELSE DecodeError
           [] b[1] = 4 ->
                IF Len(b) < 3 THEN DecodeError
                ELSE [ok |-> TRUE, operation |-> OpDeleteVector(c, b[3])]
           [] OTHER -> DecodeError

\* bincode::deserialize of a WALEntry
Deserialize(b) ==
    IF Len(b) < 3 THEN DecodeError
    ELSE DeserializeOperation(SubSeq(b, 4, Len(b)))

\* read_all: Ok(operations) or Err
RECURSIVE ReadAll(_)
ReadAll(b) ==
    IF Len(b) < 4 THEN [ok |-> TRUE, ops |-> <<>>]
    ELSE LET length == FromLeBytes(SubSeq(b, 1, 4)) IN
         IF Len(b) < 4 + length THEN [ok |-> FALSE, ops |-> <<>>]
         ELSE LET e == Deserialize(SubSeq(b, 5, 4 + length)) IN
              IF ~e.ok THEN [ok |-> FALSE, ops |-> <<>>]
              ELSE LET r == ReadAll(SubSeq(b, 5 + length, Len(b))) IN
                   IF r.ok THEN [ok |-> TRUE, ops |-> <<e.operation>> \o r.ops]
                   ELSE r

NotRead == [called |-> FALSE, ok |-> FALSE, ops |-> <<>>]
IdleWriter == [pc |-> "idle", op |-> OpDeleteCollection("a"), serialized |-> <<>>]

WalIdle ==
    /\ walBytes = <<>>
    /\ walWriter = [t \in Tasks |-> IdleWriter]
    /\ walLog = <<>>
    /\ walOverlap = FALSE
    /\ walCut = FALSE
    /\ walRead = NotRead

WritersIdle == \A t \in Tasks : walWriter[t].pc = "idle"

\* append, up to the first write_all: the length prefix is in the file
WalAppendLength(t, o, u, ts) ==
    /\ ~walCut
    /\ walWriter[t].pc = "idle"
    /\ \A s \in 1..(t - 1) : walWriter[s].pc # "idle"
    /\ Len(walLog) + Cardinality({s \in Tasks : walWriter[s].pc # "idle"}) < MaxFrames
    /\ LET serialized == Serialize(WALEntry(u, ts, o)) IN
       /\ walBytes' = walBytes \o ToLeBytes(Len(serialized))
       /\ walWriter' = [walWriter EXCEPT ![t] =
              [pc |-> "payload", op |-> o, serialized |-> serialized]]
    /\ walOverlap' = (walOverlap \/ ~WritersIdle)
    /\ walRead' = NotRead
    /\ UNCHANGED <<walLog, walCut, storeVars, hnswVars,
                 mmVars, recVars, lockVars>>

\* append, the second write_all and sync_all: the payload is in the file
WalAppendPayload(t) ==
    /\ ~walCut
    /\ walWriter[t].pc = "payload"
    /\ walBytes' = walBytes \o walWriter[t].serialized
    /\ walLog' = Append(walLog, walWriter[t].op)
    /\ walWriter' = [walWriter EXCEPT ![t] = IdleWriter]
    /\ walRead' = NotRead
    /\ UNCHANGED <<walOverlap, walCut, storeVars, hnswVars,
                 mmVars, recVars, lockVars>>

\* the frame append writes for o
FrameLen(o) == 4 + Len(Serialize(WALEntry(0, 0, o)))

\* the process is killed while the latest frame is on its way to the disk:
\* only the first keep bytes of that frame are in the file
WalCrash(keep) ==
    /\ ~walCut /\ WritersIdle /\ ~walOverlap
    /\ walLog # <<>>
    /\ keep < FrameLen(walLog[Len(walLog)])
    /\ walBytes' = SubSeq(walBytes, 1,
                          Len(walBytes) - FrameLen(walLog[Len(walLog)]) + keep)
    /\ walCut' = TRUE
    /\ walRead' = NotRead
    /\ UNCHANGED <<walWriter, walLog, walOverlap, storeVars, hnswVars,
                 mmVars, recVars, lockVars>>

\* read_all
WalReadAll ==
    /\ walRead = NotRead
    /\ walRead' = [called |-> TRUE, ok |-> ReadAll(walBytes).ok,
                   ops |-> ReadAll(walBytes).ops]
    /\ UNCHANGED <<walBytes, walWriter, walLog, walOverlap, walCut, storeVars, hnswVars,
                 mmVars, recVars, lockVars>>

\* the lengths a kill can leave of the latest frame
PartialLens == IF walLog = <<>> THEN {}
               ELSE 1..(FrameLen(walLog[Len(walLog)]) - 1)

WalNext ==
    \/ \E t \in Tasks, o \in WalOps, u \in EntryUuids, ts \in Timestamps :
          WalAppendLength(t, o, u, ts)
    \/ \E t \in Tasks : WalAppendPayload(t)
    \/ \E keep \in PartialLens : WalCrash(keep)
    \/ WalReadAll

C5_PartialFrameDropped ==
    (walRead.called /\ walCut) =>
        (walRead.ok /\ walRead.ops = SubSeq(walLog, 1, Len(walLog) - 1))

\* C6: whatever the interleaving of concurrent appends, once they have
\* returned read_all returns every appended operation once, in append order.
C6_ConcurrentAppendsAreWholeFrames ==
    (walRead.called /\ WritersIdle /\ ~walCut) =>
        (walRead.ok /\ walRead.ops = walLog)

(***************************************************************************)
(* The HNSW index (index/src/hnsw.rs, index/src/node.rs): one index with   *)
(* vectors of dimension 1 and integer components.                          *)
(***************************************************************************)
MaxNodes == 4
MaxCalls == 4
MaxDeletes == 1
MaxReinserts == 1
\* IndexConfig of the modelled index: max_layer and max_connections scaled
\* down, ef_construction and ef_search as IndexConfig::default has them
MaxLayer == 1
MaxConnections == 1
EfConstruction == 200
EfSearch == 50

HIds == 1..MaxNodes
Layers == 0..MaxLayer
Coords == {0, 2, 5}
Metrics == {"Euclidean", "DotProduct"}
TieOrders == {"low", "high"}
SearchLimits == {2}

Abs(x) == IF x < 0 THEN -x ELSE x
Max(x, y) == IF x >= y THEN x ELSE y
Min(x, y) == IF x <= y THEN x ELSE y

\* distance(a, b, metric) on vectors of one component
Distance(a, b, m) ==
    CASE m = "Euclidean" -> Abs(a - b)
      [] m = "Manhattan" -> Abs(a - b)
      [] m = "DotProduct" -> -(a * b)
      [] OTHER -> IF a = 0 \/ b = 0 THEN 1
                  ELSE IF (a > 0) = (b > 0) THEN 0 ELSE 2

\* a slot of the node table holding no node
NoNode == [live |-> FALSE, vector |-> 0, layer |-> 0,
           connections |-> [l \in 0..0 |-> <<>>]]

\* HnswNode::new: connections has layer + 1 empty lists, indexed from 0
HnswNodeNew(v, layer) == [live |-> TRUE, vector |-> v, layer |-> layer,
                          connections |-> [l \in 0..layer |-> <<>>]]

\* connections.len()
ConnectionsLen(n) == Cardinality(DOMAIN n.connections)

SeqRange(s) == {s[k] : k \in 1..Len(s)}

\* HnswNode::add_connection
AddConnection(n, layer, nb) ==
    IF layer < ConnectionsLen(n) /\ nb \notin SeqRange(n.connections[layer])
    THEN [n EXCEPT !.connections[layer] = Append(@, nb)]
    ELSE n

\* HnswNode::remove_connection: the first occurrence goes
RemoveConnection(n, layer, nb) ==
    LET c == IF layer < ConnectionsLen(n) THEN n.connections[layer] ELSE <<>> IN
    IF layer < ConnectionsLen(n) /\ nb \in SeqRange(c)
    THEN LET pos == CHOOSE k \in 1..Len(c) :
                        c[k] = nb /\ \A j \in 1..(k - 1) : c[j] # nb
         IN [n EXCEPT !.connections[layer] =
                SubSeq(c, 1, pos - 1) \o SubSeq(c, pos + 1, Len(c))]
    ELSE n

\* HnswNode::get_connections
GetConnections(n, layer) ==
    IF layer < ConnectionsLen(n) THEN n.connections[layer] ELSE <<>>

\* HnswNode::connection_count
ConnectionCount(n, layer) == Len(GetConnections(n, layer))

\* the order of the heaps: by distance to q; equal distances in the order the
\* heap implementation leaves them, which tie fixes
Before(nd, q, m, tie, a, b) ==
    LET da == Distance(q, nd[a].vector, m)
        db == Distance(q, nd[b].vector, m)
    IN da < db \/ (da = db /\ IF tie = "low" THEN a < b ELSE a > b)

\* NearestCandidate: what dynamic_list.pop() returns
Nearest(nd, q, m, tie, S) ==
    CHOOSE a \in S : \A b \in S \ {a} : Before(nd, q, m, tie, a, b)

\* SearchCandidate: what candidates.peek() and candidates.pop() return
Farthest(nd, q, m, tie, S) ==
    CHOOSE a \in S : \A b \in S \ {a} : Before(nd, q, m, tie, b, a)

\* BinaryHeap::into_sorted_vec: ascending in the order of SearchCandidate,
\* which is the order of the distances, so the closest comes first
RECURSIVE SortedVec(_, _, _, _, _)
SortedVec(nd, q, m, tie, S) ==
    IF S = {} THEN <<>>
    ELSE LET a == Nearest(nd, q, m, tie, S)
         IN <<a>> \o SortedVec(nd, q, m, tie, S \ {a})

\* Vec::reverse
Reverse(s) == [k \in 1..Len(s) |-> s[Len(s) + 1 - k]]

\* Vec::truncate, Iterator::take
Take(s, n) == SubSeq(s, 1, Min(n, Len(s)))

\* search_layer, the loop over the neighbours of the current candidate
RECURSIVE ExploreNeighbors(_, _, _, _, _, _, _)
ExploreNeighbors(nd, q, m, tie, numClosest, nbrs, st) ==
    IF nbrs = <<>> THEN st
    ELSE LET n == Head(nbrs) IN
         IF n \in st.visited
         THEN ExploreNeighbors(nd, q, m, tie, numClosest, Tail(nbrs), st)
         ELSE LET shouldAdd ==
                     /\ nd[n].live
                     /\ \/ Cardinality(st.candidates) < numClosest
                        \/ /\ st.candidates # {}
                           /\ Distance(q, nd[n].vector, m) <
                              Distance(q, nd[Farthest(nd, q, m, tie, st.candidates)].vector, m)
                  pushed == st.candidates \cup {n}
                  st1 == IF shouldAdd
                         THEN [visited |-> st.visited \cup {n},
                               candidates |->
                                   IF Cardinality(pushed) > numClosest
                                   THEN pushed \ {Farthest(nd, q, m, tie, pushed)}
                                   ELSE pushed,
                               dynamic |-> st.dynamic \cup {n}]
                         ELSE [st EXCEPT !.visited = @ \cup {n}]
              IN ExploreNeighbors(nd, q, m, tie, numClosest, Tail(nbrs), st1)

\* search_layer, the while loop over dynamic_list
RECURSIVE SearchLoop(_, _, _, _, _, _, _)
SearchLoop(nd, q, m, tie, numClosest, layer, st) ==
    IF st.dynamic = {} THEN st
    ELSE LET cur == Nearest(nd, q, m, tie, st.dynamic)
             popped == [st EXCEPT !.dynamic = @ \ {cur}]
         IN IF /\ st.candidates # {}
               /\ Distance(q, nd[cur].vector, m) >
                  Distance(q, nd[Farthest(nd, q, m, tie, st.candidates)].vector, m)
               /\ Cardinality(st.candidates) >= numClosest
            THEN popped
            ELSE SearchLoop(nd, q, m, tie, numClosest, layer,
                     IF nd[cur].live
                     THEN ExploreNeighbors(nd, q, m, tie, numClosest,
                              GetConnections(nd[cur], layer), popped)
                     ELSE popped)

\* search_layer: the ids of the candidates in the order of the vector it
\* returns, the sorted vector reversed
SearchLayer(nd, q, m, tie, entryPoints, numClosest, layer) ==
    LET start == {e \in SeqRange(entryPoints) : nd[e].live}
        st == SearchLoop(nd, q, m, tie, numClosest, layer,
                         [visited |-> start, candidates |-> start, dynamic |-> start])
    IN Take(Reverse(SortedVec(nd, q, m, tie, st.candidates)), numClosest)

\* the outcomes of rng.gen::<f64>() < 0.5 that one call of select_layer can
\* consume: it tests at most max_layer + 1 of them
Draws == {d \in [1..(MaxLayer + 1) -> BOOLEAN] :
              \A k \in 1..MaxLayer : ~d[k] => ~d[k + 1]}

\* a select_layer whose loop does not test the cap
SelectLayerUncapped(draws) ==
    LET heads == {n \in 0..Len(draws) : \A k \in 1..n : draws[k]}
        n == CHOOSE x \in heads : \A y \in heads : y <= x
    IN [layer |-> n, used |-> Min(n + 1, Len(draws))]

\* select_layer, the while loop: layer so far, draws consumed so far
RECURSIVE SelectLayerLoop(_, _, _)
SelectLayerLoop(draws, layer, used) ==
    IF used >= Len(draws) THEN [layer |-> layer, used |-> used]
    ELSE IF draws[used + 1] /\ layer < MaxLayer
         THEN SelectLayerLoop(draws, layer + 1, used + 1)
         ELSE [layer |-> layer, used |-> used + 1]

\* select_layer: the layer returned and the number of draws it took
SelectLayer(draws) == SelectLayerLoop(draws, 0, 0)

\* select_neighbors
SelectNeighbors(candidates, mm) == Take(candidates, mm)

\* get_m_values giving every layer the cap of layer 0
GetMValuesWide(layer) == <<MaxConnections, MaxConnections * 2>>

\* get_m_values
GetMValues(layer) ==
    IF layer = 0 THEN <<MaxConnections, MaxConnections * 2>>
    ELSE <<MaxConnections, MaxConnections>>

\* insert and search, the descent through the layers from..(to + 1) with
\* num_closest 1
RECURSIVE Descend(_, _, _, _, _, _, _)
Descend(nd, q, m, tie, cur, from, to) ==
    IF from <= to THEN cur
    ELSE Descend(nd, q, m, tie, SearchLayer(nd, q, m, tie, cur, 1, from), from - 1, to)

\* insert, the loop over the selected neighbours at layer lc; pruned: the
\* <<neighbour, layer>> lists the insert has re-selected so far
RECURSIVE LinkNeighbors(_, _, _, _, _, _, _, _, _)
LinkNeighbors(nd, m, tie, new, id, selected, lc, maxM, pruned) ==
    IF selected = <<>> THEN [nodes |-> nd, new |-> new, pruned |-> pruned]
    ELSE LET nb == Head(selected)
             new1 == AddConnection(new, lc, nb)
             nd1 == IF nd[nb].live
                    THEN [nd EXCEPT ![nb] = AddConnection(@, lc, id)]
                    ELSE nd
             over == nd1[nb].live /\ ConnectionCount(nd1[nb], lc) > maxM
             nd2 == IF over
                    THEN [nd1 EXCEPT ![nb].connections[lc] =
                             SelectNeighbors(
                                 SearchLayer(nd1, nd1[nb].vector, m, tie, <<id>>,
                                             maxM + 1, lc),
                                 maxM)]
                    ELSE nd1
         IN LinkNeighbors(nd2, m, tie, new1, id, Tail(selected), lc, maxM,
                          IF over THEN pruned \cup {<<nb, lc>>} ELSE pruned)

\* insert, the loop over the layers lc..0
RECURSIVE ConnectLayers(_, _, _, _, _, _, _, _)
ConnectLayers(nd, m, tie, new, id, cur, lc, pruned) ==
    IF lc < 0 THEN [nodes |-> nd, new |-> new, pruned |-> pruned]
    ELSE LET ef == IF lc = 0 THEN Max(EfConstruction, MaxConnections)
                   ELSE EfConstruction
             candidates == SearchLayer(nd, new.vector, m, tie, cur, ef, lc)
             selected == SelectNeighbors(candidates, GetMValues(lc)[1])
             r == LinkNeighbors(nd, m, tie, new, id, selected, lc, GetMValues(lc)[2],
                                pruned)
         IN ConnectLayers(r.nodes, m, tie, r.new, id, selected, lc - 1, r.pruned)

\* HnswIndex::insert with the layer select_layer drew
HnswInsert(h, m, tie, id, v, layer) ==
    IF h.entry = 0
    THEN [nodes |-> [h.nodes EXCEPT ![id] = HnswNodeNew(v, layer)], entry |-> id,
          pruned |-> {}]
    ELSE LET entryLayer == h.nodes[h.entry].layer
             top == Descend(h.nodes, v, m, tie, <<h.entry>>, entryLayer, layer)
             r == ConnectLayers(h.nodes, m, tie, HnswNodeNew(v, layer), id, top, layer,
                                {})
         IN [nodes |-> [r.nodes EXCEPT ![id] = r.new],
             entry |-> IF layer > entryLayer THEN id ELSE h.entry,
             pruned |-> r.pruned]

\* HnswIndex::search with ef = None: the ids of the results in the order
\* returned
HnswSearch(h, m, tie, q, limit) ==
    IF h.entry = 0 THEN <<>>
    ELSE LET cur == Descend(h.nodes, q, m, tie, <<h.entry>>, h.nodes[h.entry].layer, 0)
             candidates == SearchLayer(h.nodes, q, m, tie, cur, Max(EfSearch, limit), 0)
         IN SelectSeq(Take(candidates, limit), LAMBDA c : h.nodes[c].live)

\* a delete that strips the removed id from layer 0 only
RemoveFromLayerZero(n, layer, id) == RemoveConnection(n, 0, id)

\* delete, the loop over the layers of one other node
RECURSIVE RemoveFromLayers(_, _, _)
RemoveFromLayers(n, layer, id) ==
    IF layer >= ConnectionsLen(n) THEN n
    ELSE RemoveFromLayers(RemoveConnection(n, layer, id), layer + 1, id)

\* HnswIndex::delete, a delete unlinking the node without removing it from
\* the node table
HnswDeleteKeepNode(h, id, newEntry) ==
    [nodes |-> [i \in HIds |->
                   IF i # id /\ h.nodes[i].live
                   THEN RemoveFromLayers(h.nodes[i], 0, id) ELSE h.nodes[i]],
     entry |-> h.entry,
     result |-> h.nodes[id].live]

\* HnswIndex::delete: the index it leaves and the bool it returns; newEntry is
\* the node max_by_key picks
HnswDelete(h, id, newEntry) ==
    IF ~h.nodes[id].live
    THEN [nodes |-> h.nodes, entry |-> h.entry, result |-> FALSE]
    ELSE [nodes |-> [i \in HIds |->
                        IF i = id THEN NoNode
                        ELSE IF h.nodes[i].live
                             THEN RemoveFromLayers(h.nodes[i], 0, id)
                             ELSE h.nodes[i]],
          entry |-> IF h.entry = id THEN newEntry ELSE h.entry,
          result |-> TRUE]

\* the nodes max_by_key(layer) can return: the iteration order of the HashMap
\* decides among the nodes of the highest layer
NewEntryPoints(nd, id) ==
    LET rest == {i \in HIds \ {id} : nd[i].live}
    IN IF rest = {} THEN {0}
       ELSE {i \in rest : \A j \in rest : nd[j].layer <= nd[i].layer}

\* drawn: what select_layer returned to the latest insert, and the draws it
\* took (used 0: the latest call was no insert).
\* pruned: the <<neighbour, layer>> lists the latest insert re-selected.
\* delId, delRet: the id the latest call deleted (0: the latest call was no
\* delete) and what delete returned; unlinked: that delete took its id out of
\* some adjacency list; reinserts: the inserts that named a live id
NoHistory == [inserts |-> 0, deletes |-> 0, fresh |-> TRUE, last |-> 0,
              deleted |-> {}, removed |-> FALSE, delId |-> 0, delRet |-> FALSE,
              unlinked |-> FALSE, reinserts |-> 0, pruned |-> {},
              drawn |-> [layer |-> 0, used |-> 0]]

NotSearched == [called |-> FALSE, query |-> 0, limit |-> 0, results |-> <<>>]

HnswIdle ==
    /\ hnsw = [nodes |-> [i \in HIds |-> NoNode], entry |-> 0]
    /\ metric = "Euclidean"
    /\ hist = NoHistory
    /\ found = NotSearched

HnswInit ==
    /\ hnsw = [nodes |-> [i \in HIds |-> NoNode], entry |-> 0]
    /\ metric \in Metrics
    /\ hist = NoHistory
    /\ found = NotSearched

\* the ids some insert or delete has named
SeenIds == {i \in HIds : hnsw.nodes[i].live} \cup hist.deleted

\* the ids a call names: one named before, or the lowest not yet named
CallIds == {i \in HIds : \A j \in 1..(i - 1) : j \in SeenIds}

\* insert(id, vector) with select_layer consuming draws, the heaps ordering
\* equal distances by tie
Insert(id, v, draws, tie) ==
    /\ found = NotSearched
    /\ hist.inserts + hist.deletes < MaxCalls
    /\ id \in CallIds
    /\ hnsw.nodes[id].live => hist.reinserts < MaxReinserts
    /\ LET layer == SelectLayer(draws)
           r == HnswInsert(hnsw, metric, tie, id, v, layer.layer)
       IN /\ hnsw' = [nodes |-> r.nodes, entry |-> r.entry]
          /\ hist' = [hist EXCEPT
                         !.inserts = @ + 1, !.drawn = layer, !.pruned = r.pruned,
                         !.fresh = @ /\ id \notin SeenIds,
                         !.last = id, !.deleted = @ \ {id},
                         !.delId = 0, !.delRet = FALSE, !.unlinked = FALSE,
                         !.reinserts = IF hnsw.nodes[id].live THEN @ + 1 ELSE @]
    /\ found' = NotSearched
    /\ UNCHANGED <<metric, storeVars, walVars, mmVars, recVars, lockVars>>

\* delete(id)
Delete(id, newEntry) ==
    /\ found = NotSearched
    /\ hist.inserts + hist.deletes < MaxCalls
    /\ hist.deletes < MaxDeletes
    /\ id \in CallIds
    /\ newEntry \in NewEntryPoints(hnsw.nodes, id)
    /\ LET r == HnswDelete(hnsw, id, newEntry) IN
       /\ hnsw' = [nodes |-> r.nodes, entry |-> r.entry]
       /\ hist' = [hist EXCEPT
                      !.deletes = @ + 1, !.fresh = FALSE, !.last = 0,
                      !.deleted = @ \cup {id},
                      !.removed = @ \/ hnsw.nodes[id].live,
                      !.delId = id, !.delRet = r.result, !.pruned = {},
                      !.drawn = NoHistory.drawn,
                      !.unlinked = \E i \in HIds \ {id}, l \in Layers :
                                      /\ hnsw.nodes[i].live
                                      /\ id \in SeqRange(GetConnections(hnsw.nodes[i], l))]
    /\ found' = NotSearched
    /\ UNCHANGED <<metric, storeVars, walVars, mmVars, recVars, lockVars>>

\* search(query, limit, None), the heaps ordering equal distances by tie
Search(q, limit, tie) ==
    /\ found = NotSearched
    /\ found' = [called |-> TRUE, query |-> q, limit |-> limit,
                 results |-> HnswSearch(hnsw, metric, tie, q, limit)]
    /\ UNCHANGED <<hnsw, metric, hist, storeVars, walVars, mmVars, recVars, lockVars>>

\* the caller drops the results; the next call follows
SearchDone ==
    /\ found # NotSearched
    /\ found' = NotSearched
    /\ UNCHANGED <<hnsw, metric, hist, storeVars, walVars, mmVars, recVars, lockVars>>

HnswNext ==
    \/ \E id \in HIds, v \in Coords, draws \in Draws, tie \in TieOrders :
          Insert(id, v, draws, tie)
    \/ \E id \in HIds, e \in HIds \cup {0} : Delete(id, e)
    \/ \E q \in Coords, limit \in SearchLimits, tie \in TieOrders : Search(q, limit, tie)
    \/ SearchDone

(***************************************************************************)
(* Properties of the index (SpecHnsw).                                     *)
(***************************************************************************)
\* C7: a search returns no id whose delete has completed, until the id is
\* inserted again.
C7_DeletedIdNotReturned ==
    found.called => SeqRange(found.results) \cap hist.deleted = {}

\* C7 witness: a search returned a result after a delete removed a node from
\* an index of three nodes.
C7_Witness ==
    /\ found.called /\ found.results # <<>>
    /\ hist.removed /\ hist.deleted # {} /\ hist.inserts >= 3

LiveIds == {i \in HIds : hnsw.nodes[i].live}

\* C25: after any sequence of inserts and deletes no node has more than
\* 2 * max_connections neighbours at layer 0 or more than max_connections
\* neighbours at a layer >= 1.
C25_DegreeCap ==
    \A i \in LiveIds, l \in Layers :
        Len(GetConnections(hnsw.nodes[i], l)) <=
            (IF l = 0 THEN 2 * MaxConnections ELSE MaxConnections)

\* C25 witness: after inserts under fresh ids only, one node of the higher
\* layer is at its cap and another, still listed by a neighbour at layer 0,
\* has had its list there cut by the pruning.
C25_Witness ==
    /\ hist.fresh /\ hist.inserts >= 3
    /\ \E i \in LiveIds : Len(GetConnections(hnsw.nodes[i], 1)) = MaxConnections
    /\ \E i, j \in LiveIds :
          /\ i # j
          /\ i \in SeqRange(GetConnections(hnsw.nodes[j], 0))
          /\ j \notin SeqRange(GetConnections(hnsw.nodes[i], 0))

\* C26: after any sequence of inserts and deletes, a live node a that lists a
\* live node b at a layer is listed by b at that layer.
C26_Symmetry ==
    \A a, b \in LiveIds, l \in Layers :
        b \in SeqRange(GetConnections(hnsw.nodes[a], l))
        => a \in SeqRange(GetConnections(hnsw.nodes[b], l))

\* C27: after any sequence of inserts (of a live id too) and deletes, the
\* entry point is present exactly when the index holds a node, and it is then
\* a live node of the highest layer among the live nodes.
C27_EntryPointIsTop ==
    /\ hnsw.entry = 0 <=> LiveIds = {}
    /\ hnsw.entry # 0 =>
          /\ hnsw.entry \in LiveIds
          /\ \A i \in LiveIds : hnsw.nodes[i].layer <= hnsw.nodes[hnsw.entry].layer

\* C30: delete(id) returns true iff id was in the node table; then it removes
\* that node and every occurrence of id from the adjacency lists of the
\* surviving nodes and changes no other node, vector or edge; when it returns
\* false the index is unchanged.
C30_DeleteFrame ==
    [][(hist'.deletes = hist.deletes + 1) =>
          LET id == hist'.delId IN
          /\ hist'.delRet = hnsw.nodes[id].live
          /\ ~hist'.delRet => hnsw' = hnsw
          /\ hist'.delRet =>
                /\ hnsw'.nodes[id] = NoNode
                /\ \A i \in HIds \ {id} :
                      /\ hnsw'.nodes[i].live = hnsw.nodes[i].live
                      /\ hnsw'.nodes[i].vector = hnsw.nodes[i].vector
                      /\ hnsw'.nodes[i].layer = hnsw.nodes[i].layer
                      /\ \A l \in Layers :
                            GetConnections(hnsw'.nodes[i], l) =
                                SelectSeq(GetConnections(hnsw.nodes[i], l),
                                          LAMBDA x : x # id)]_vars

\* C30 witness: a delete returned true having taken its id out of an
\* adjacency list of a surviving node, which keeps another edge, and a node of
\* the higher layer is live.
C30_Witness ==
    /\ hist.delId # 0 /\ hist.delRet /\ hist.unlinked
    /\ \E i \in LiveIds : GetConnections(hnsw.nodes[i], 0) # <<>>
    /\ \E i \in LiveIds : hnsw.nodes[i].layer = 1

\* C31: in every reachable state every id a node lists at layer l is the id
\* of a node of the table whose top layer is at least l; so a node inserted
\* above the entry node's layer lists nothing at the layers above it.
C31_EdgesWithinLayers ==
    \A i \in LiveIds, l \in Layers :
        \A j \in SeqRange(GetConnections(hnsw.nodes[i], l)) :
            j \in LiveIds /\ hnsw.nodes[j].layer >= l

\* the cap of a layer: 2 * max_connections at layer 0, max_connections above
LayerCap(l) == IF l = 0 THEN 2 * MaxConnections ELSE MaxConnections

\* C32: a neighbour whose list at a layer the latest insert re-selected,
\* because the reverse edge took it over the cap, has exactly cap neighbours
\* at that layer after the insert.
C32_PrunedToCap ==
    \A p \in hist.pruned :
        p[1] # hist.last =>
            Len(GetConnections(hnsw.nodes[p[1]], p[2])) = LayerCap(p[2])

\* C33: a search returns at most limit results, no id twice, in the order of
\* non-decreasing distance to the query, and nothing on an empty index.
C33_SearchResultsOrdered ==
    found.called =>
        LET r == found.results
            d(k) == Distance(found.query, hnsw.nodes[r[k]].vector, metric)
        IN /\ Len(r) <= found.limit
           /\ \A j, k \in 1..Len(r) : j # k => r[j] # r[k]
           /\ \A j, k \in 1..Len(r) : j < k => d(j) <= d(k)
           /\ hnsw.entry = 0 => r = <<>>

\* C34: select_layer returns after at most max_layer + 1 draws with a layer
\* in 0..max_layer, and every node of the table has its top layer in that
\* range and exactly top layer + 1 adjacency lists.
C34_LayerInRange ==
    /\ hist.drawn.layer \in 0..MaxLayer
    /\ hist.drawn.used <= MaxLayer + 1
    /\ \A i \in LiveIds :
          /\ hnsw.nodes[i].layer \in 0..MaxLayer
          /\ DOMAIN hnsw.nodes[i].connections = 0..hnsw.nodes[i].layer

\* C34 witness: the latest insert drew the cap, its loop ended by the cap
\* after max_layer + 1 draws, while another node of the table has layer 0
\* and a delete has run.
C34_Witness ==
    /\ hist.last # 0 /\ hist.deletes > 0
    /\ hist.drawn = [layer |-> MaxLayer, used |-> MaxLayer + 1]
    /\ hnsw.nodes[hist.last].layer = MaxLayer
    /\ \E i \in LiveIds : hnsw.nodes[i].layer = 0 /\ GetConnections(hnsw.nodes[i], 0) # <<>>

(***************************************************************************)
(* MMapStorage (storage/src/mmap.rs): one memory-mapped file that grows.   *)
(* The file and its mapping have the same length at every step (grow sets  *)
(* both under the locks), so one byte sequence stands for both.            *)
(***************************************************************************)
\* INITIAL_SIZE, 1 MiB in the code; the model's file starts this many bytes long
InitialSize == 4
MaxAppends == 3

\* the byte strings appended: serialized vectors, as CollectionStorage::insert
\* appends them, and other data, one of which reads as a length-prefixed frame
MmData == {<<7>>,
           SerializeVector([id |-> 1, len |-> 1]),
           <<1, 0, 0, 0, 9>>,
           SerializeVector([id |-> 2, len |-> 4])}

Zeros(n) == [k \in 1..n |-> 0]

\* MMapStorage::new on a file that does not exist yet
NewMmap == [bytes |-> Zeros(InitialSize), size |-> InitialSize, position |-> 0]

\* a resize that maps a fresh file
SetLenFresh(b, n) == Zeros(n)

\* file.set_len(new_size): the content is kept up to the new length and
\* extended with zeros
SetLen(b, n) == [k \in 1..n |-> IF k <= Len(b) THEN b[k] ELSE 0]

\* grow(new_size): drop the mapping, resize the file, map it again
Grow(m, n) == [m EXCEPT !.bytes = SetLen(@, n), !.size = n]

\* mmap[start..end].copy_from_slice(data)
CopyFromSlice(b, start, data) ==
    [k \in 1..Len(b) |->
        IF start < k /\ k <= start + Len(data) THEN data[k - start] ELSE b[k]]

\* read(offset, length)
Read(m, offset, length) ==
    IF offset + length > Len(m.bytes)
    THEN [ok |-> FALSE, bytes |-> <<>>]
    ELSE [ok |-> TRUE, bytes |-> SubSeq(m.bytes, offset + 1, offset + length)]

\* StorageIterator::next at iterator position pos: Err, Ok(None) or
\* Ok(Some(data)) with the position moved past the frame
IterNext(m, pos) ==
    LET current_size == m.position
        none == [ok |-> TRUE, some |-> FALSE, data |-> <<>>, position |-> pos]
        err == [none EXCEPT !.ok = FALSE]
        lb == Read(m, pos, 4)
        length == FromLeBytes(lb.bytes)
        data == Read(m, pos + 4, length)
    IN IF pos >= current_size THEN none
       ELSE IF pos + 4 > current_size THEN none
       ELSE IF ~lb.ok THEN err
       ELSE IF pos + 4 + length > current_size THEN none
       ELSE IF ~data.ok THEN err
       ELSE [ok |-> TRUE, some |-> TRUE, data |-> data.bytes,
             position |-> pos + 4 + length]

\* iter(), then next() until it returns None or an error: the records yielded
RECURSIVE IterAll(_, _, _)
IterAll(m, pos, acc) ==
    LET r == IterNext(m, pos) IN
    IF ~r.ok THEN [ok |-> FALSE, records |-> acc]
    ELSE IF ~r.some THEN [ok |-> TRUE, records |-> acc]
    ELSE IterAll(m, r.position, Append(acc, r.data))

IdleAppend == [pc |-> "idle", data |-> <<>>, cur |-> 0]

\* nothing returned by the latest step
NoResult == [op |-> "none", ok |-> TRUE, offset |-> 0, index |-> 0,
             bytes |-> <<>>, records |-> <<>>]

MmIdle ==
    /\ mmap = NewMmap
    /\ mmTask = [t \in Tasks |-> IdleAppend]
    /\ mmLog = <<>>
    /\ mmOverlap = FALSE
    /\ mmRet = NoResult

AppendsInFlight == {t \in Tasks : mmTask[t].pc # "idle"}

\* append, lines 57-61: read position and size under their locks, decide
\* whether to grow, release the locks
AppendBegin(t, d) ==
    /\ mmTask[t].pc = "idle"
    /\ \A u \in 1..(t - 1) : mmTask[u].pc # "idle"
    /\ Len(mmLog) + Cardinality(AppendsInFlight) < MaxAppends
    /\ mmTask' = [mmTask EXCEPT ![t] =
                     [pc |-> IF mmap.position + Len(d) > mmap.size
                             THEN "grow" ELSE "write",
                      data |-> d, cur |-> mmap.position]]
    /\ mmOverlap' = (mmOverlap \/ AppendsInFlight # {})
    /\ mmRet' = NoResult
    /\ UNCHANGED <<mmap, mmLog, storeVars, walVars, hnswVars, recVars, lockVars>>

\* append, lines 64-66: self.grow((current_position + data.len()) * 2)
AppendGrow(t) ==
    /\ mmTask[t].pc = "grow"
    /\ mmap' = Grow(mmap, (mmTask[t].cur + Len(mmTask[t].data)) * 2)
    /\ mmTask' = [mmTask EXCEPT ![t].pc = "write"]
    /\ mmRet' = NoResult
    /\ UNCHANGED <<mmLog, mmOverlap, storeVars, walVars, hnswVars, recVars, lockVars>>

\* append, lines 69-83: under the position and mmap locks, copy the data to
\* the current position and advance it; a slice that ends beyond the mapping
\* panics (the locks are released by the unwinding, nothing is written)
AppendWrite(t) ==
    /\ mmTask[t].pc = "write"
    /\ LET start == mmap.position
           data == mmTask[t].data
           ok == start + Len(data) <= Len(mmap.bytes)
       IN /\ mmap' = IF ok
                     THEN [mmap EXCEPT !.bytes = CopyFromSlice(@, start, data),
                                       !.position = start + Len(data)]
                     ELSE mmap
          /\ mmLog' = Append(mmLog, [data |-> data, ok |-> ok,
                                     offset |-> IF ok THEN start ELSE 0])
          /\ mmRet' = [NoResult EXCEPT !.op = "append", !.ok = ok,
                          !.offset = IF ok THEN start ELSE 0,
                          !.index = Len(mmLog) + 1]
    /\ mmTask' = [mmTask EXCEPT ![t] = IdleAppend]
    /\ UNCHANGED <<mmOverlap, storeVars, walVars, hnswVars, recVars, lockVars>>

\* read(offset, len(d)) for the k-th append that returned an offset
ReadBack(k) ==
    /\ k \in 1..Len(mmLog) /\ mmLog[k].ok
    /\ LET r == Read(mmap, mmLog[k].offset, Len(mmLog[k].data)) IN
       mmRet' = [NoResult EXCEPT !.op = "read", !.ok = r.ok, !.index = k,
                    !.offset = mmLog[k].offset, !.bytes = r.bytes]
    /\ UNCHANGED <<mmap, mmTask, mmLog, mmOverlap, storeVars, walVars, hnswVars,
                   recVars, lockVars>>

\* iter() and next() to the end, while no append is in flight
Iterate ==
    /\ AppendsInFlight = {}
    /\ LET r == IterAll(mmap, 0, <<>>) IN
       mmRet' = [NoResult EXCEPT !.op = "iter", !.ok = r.ok, !.records = r.records]
    /\ UNCHANGED <<mmap, mmTask, mmLog, mmOverlap, storeVars, walVars, hnswVars,
                   recVars, lockVars>>

MmNext ==
    \/ \E t \in Tasks, d \in MmData : AppendBegin(t, d)
    \/ \E t \in Tasks : AppendGrow(t)
    \/ \E t \in Tasks : AppendWrite(t)
    \/ \E k \in 1..MaxAppends : ReadBack(k)
    \/ Iterate

(***************************************************************************)
(* Properties of the mapped file (SpecMmap).                               *)
(***************************************************************************)
\* the total length of the data of the first n appends
RECURSIVE AppendedLen(_)
AppendedLen(n) == IF n = 0 THEN 0 ELSE AppendedLen(n - 1) + Len(mmLog[n].data)

\* C15: when appends are made one after another, growth included, each
\* returns the offset equal to the total length of the data appended before
\* it, and read(offset, len(d)) returns d for every earlier append of d.
C15_MmapRoundTrip ==
    ~mmOverlap =>
        /\ \A k \in 1..Len(mmLog) :
              mmLog[k].ok /\ mmLog[k].offset = AppendedLen(k - 1)
        /\ mmRet.op = "read" =>
              mmRet.ok /\ mmRet.bytes = mmLog[mmRet.index].data

\* C15 witness: the data of the first append, written before the file grew,
\* was read back after the growth and two more appends.
C15_Witness ==
    /\ ~mmOverlap /\ mmRet.op = "read" /\ mmRet.index = 1
    /\ Len(mmLog) >= 3
    /\ Len(mmLog[1].data) > 1 /\ Len(mmLog[1].data) <= InitialSize
    /\ mmap.size > InitialSize

\* C16: after records r1..rn were appended one after another, the frame
\* iterator yields exactly r1..rn in order and then None.
C16_IteratorYieldsRecords ==
    (mmRet.op = "iter" /\ ~mmOverlap) =>
        /\ mmRet.ok
        /\ mmRet.records = [k \in 1..Len(mmLog) |-> mmLog[k].data]

\* C17: no append, under any interleaving of concurrent appends, reaches its
\* write with the end of the data beyond the mapped size, and no growth
\* leaves the mapped size below the write position.
C17_GrowthNeverSkipped ==
    /\ \A k \in 1..Len(mmLog) : mmLog[k].ok
    /\ mmap.size >= mmap.position

(***************************************************************************)
(* RecoveryManager::recover_from_wal on its own (storage/src/recovery.rs): *)
(* any short WAL over any set of collection directories.                   *)
(***************************************************************************)
MaxRecOps == 3

\* the operations of the WALs recovered: vectors with and without components
RecOps == {OpCreateCollection("a", 1),
           OpCreateCollection("b", 1),
           OpDeleteCollection("a"),
           OpInsertVector("a", [id |-> 1, len |-> 1]),
           OpInsertVector("a", [id |-> 2, len |-> 0]),
           OpInsertVector("b", [id |-> 1, len |-> 1]),
           OpBatchInsert("a", <<>>),
           OpBatchInsert("a", <<[id |-> 1, len |-> 1], [id |-> 2, len |-> 1]>>),
           OpBatchInsert("a", <<[id |-> 1, len |-> 1], [id |-> 2, len |-> 0]>>),
           OpDeleteVector("a", 1)}

RecWals == UNION {[1..n -> RecOps] : n \in 0..MaxRecOps}

NotRecovered == [called |-> FALSE, ops |-> <<>>]

RecIdle ==
    /\ recWal = <<>>
    /\ recDisk = {}
    /\ recOut = NotRecovered

RecInit ==
    /\ recWal \in RecWals
    /\ recDisk \in SUBSET Names
    /\ recOut = NotRecovered

\* recovery.recover_from_wal(&self.wal)
RecoverFromWalCall ==
    /\ ~recOut.called
    /\ recOut' = [called |-> TRUE, ops |-> RecoverFromWal(recWal, recDisk)]
    /\ UNCHANGED <<recWal, recDisk, storeVars, walVars, hnswVars, mmVars,
                   lockVars>>

\* the caller drops the result
RecoverFromWalDone ==
    /\ recOut.called
    /\ recOut' = NotRecovered
    /\ UNCHANGED <<recWal, recDisk, storeVars, walVars, hnswVars, mmVars,
                   lockVars>>

RecNext ==
    \/ RecoverFromWalCall
    \/ RecoverFromWalDone

(***************************************************************************)
(* Properties of recover_from_wal (SpecRecovery).                          *)
(***************************************************************************)
\* the validation the claim describes, against the known collections
PassesValidation(o, known) ==
    CASE o.op = "CreateCollection" -> o.col \notin known
      [] o.op = "DeleteCollection" -> o.col \in known
      [] o.op \in {"InsertVector", "BatchInsert"} ->
            /\ o.col \in known
            /\ \A k \in 1..Len(o.vecs) : o.vecs[k].len # 0
      [] OTHER -> o.col \in known

\* the known collections after an operation that passed
KnownAfter(o, known) ==
    CASE o.op = "CreateCollection" -> known \cup {o.col}
      [] o.op = "DeleteCollection" -> known \ {o.col}
      [] OTHER -> known

\* the subsequence of the operations that pass, in order
RECURSIVE ValidSubsequence(_, _)
ValidSubsequence(ops, known) ==
    IF ops = <<>> THEN <<>>
    ELSE IF PassesValidation(Head(ops), known)
    THEN <<Head(ops)>> \o ValidSubsequence(Tail(ops), KnownAfter(Head(ops), known))
    ELSE ValidSubsequence(Tail(ops), known)

\* C18: recover_from_wal returns exactly the operations of the WAL, in order,
\* that pass validation against the running set of known collections seeded
\* with the directories on disk: CreateCollection needs the name absent,
\* DeleteCollection present, vector operations present, and InsertVector and
\* BatchInsert every vector non-empty.
C18_RecoverReturnsValidSubsequence ==
    recOut.called => recOut.ops = ValidSubsequence(recWal, recDisk)

(***************************************************************************)
(* The locks around one HNSW index (vectorstore/src/lib.rs, index/src/      *)
(* hnsw.rs) and inside one MMapStorage (storage/src/mmap.rs). Every task is *)
(* a thread of the runtime; a task that asks for a lock it cannot get waits *)
(* at that position.                                                       *)
(***************************************************************************)
NumLockTasks == 3
\* the mutations of the graph the model follows
MaxVersions == 2
\* the times one insert drops and retakes the node-table lock, the searches
\* of one query
MaxRounds == 2

LockTasks == 1..NumLockTasks

\* VectorStore.indexes, HnswIndex.nodes, HnswIndex.entry_point (RwLock);
\* MMapStorage.file, .mmap, .size, .position (Mutex)
LockNames == {"indexes", "nodes", "entry_point", "file", "mmap", "size", "position"}

FreeLock == [w |-> 0, r |-> {}]

IdleLockTask == [op |-> "none", pc |-> "idle", rounds |-> 0, seen |-> {}]

NoWant == [lock |-> "none", mode |-> "none"]

LocksIdle ==
    /\ held = [l \in LockNames |-> FreeLock]
    /\ ltask = [t \in LockTasks |-> IdleLockTask]
    /\ graph = [version |-> 0, partial |-> FALSE, count |-> 0]

\* every caller of the index taking the registry lock for reading
OuterModeShared(op) == "read"

\* how a call of the vector store takes the lock of the index registry:
\* self.indexes.write() in insert and delete, self.indexes.read() in query
OuterMode(op) == IF op = "query" THEN "read" ELSE "write"

\* the lock the task asks for at its position, and how
Wants(tk) ==
    CASE tk.pc = "indexes" -> [lock |-> "indexes", mode |-> OuterMode(tk.op)]
      [] tk.pc \in {"insert_nodes", "insert_relock", "delete_nodes"} ->
            [lock |-> "nodes", mode |-> "write"]
      [] tk.pc \in {"insert_entry", "delete_entry"} ->
            [lock |-> "entry_point", mode |-> "write"]
      [] tk.pc = "search_entry" -> [lock |-> "entry_point", mode |-> "read"]
      [] tk.pc = "search_layer" -> [lock |-> "nodes", mode |-> "read"]
      [] tk.pc \in {"append_position", "write_position"} ->
            [lock |-> "position", mode |-> "write"]
      [] tk.pc \in {"append_size", "grow_size"} -> [lock |-> "size", mode |-> "write"]
      [] tk.pc \in {"grow_file", "sync_file"} -> [lock |-> "file", mode |-> "write"]
      [] tk.pc \in {"grow_mmap", "write_mmap", "sync_mmap"} ->
            [lock |-> "mmap", mode |-> "write"]
      [] OTHER -> NoWant

\* the position after the lock asked for at pc is taken
AfterLock(tk) ==
    CASE tk.pc = "indexes" ->
            IF tk.op = "insert" THEN "insert_nodes"
            ELSE IF tk.op = "delete" THEN "delete_nodes" ELSE "search_entry"
      [] tk.pc = "insert_nodes" -> "insert_entry"
      [] tk.pc = "insert_entry" -> IF graph.count = 0 THEN "insert_first" ELSE "insert_drop"
      [] tk.pc = "insert_relock" -> "insert_link"
      [] tk.pc = "delete_nodes" -> "delete_entry"
      [] tk.pc = "delete_entry" -> "delete_remove"
      [] tk.pc = "search_entry" -> IF graph.count = 0 THEN "return" ELSE "search_layer"
      [] tk.pc = "search_layer" -> "search_layer_end"
      [] tk.pc = "append_position" -> "append_size"
      [] tk.pc = "append_size" -> "append_check"
      [] tk.pc = "grow_file" -> "grow_mmap"
      [] tk.pc = "grow_mmap" -> "grow_size"
      [] tk.pc = "grow_size" -> "grow_end"
      [] tk.pc = "write_position" -> "write_mmap"
      [] tk.pc = "write_mmap" -> "append_end"
      [] tk.pc = "sync_mmap" -> "sync_file"
      [] OTHER -> "sync_end"

\* RwLock::read / RwLock::write / Mutex::lock can return
Available(h, w) ==
    IF w.mode = "write" THEN h[w.lock] = FreeLock ELSE h[w.lock].w = 0

Acquire(h, w, t) ==
    IF w.mode = "write" THEN [h EXCEPT ![w.lock].w = t]
    ELSE [h EXCEPT ![w.lock].r = @ \cup {t}]

\* the guards of task t on the locks ls are dropped
Release(h, ls, t) ==
    [l \in LockNames |->
        IF l \in ls
        THEN [w |-> IF h[l].w = t THEN 0 ELSE h[l].w, r |-> h[l].r \ {t}]
        ELSE h[l]]

\* task t waits: the lock it asks for is taken, or it asks to read while a
\* writer waits for that lock (parking_lot lets no reader pass a waiting
\* writer)
Blocked(t) ==
    LET w == Wants(ltask[t]) IN
    /\ w # NoWant
    /\ \/ ~Available(held, w)
       \/ /\ w.mode = "read"
          /\ \E u \in LockTasks \ {t} :
                /\ Wants(ltask[u]) = [lock |-> w.lock, mode |-> "write"]
                /\ ~Available(held, Wants(ltask[u]))

\* some call is under way and every call under way waits
Deadlocked ==
    /\ \E t \in LockTasks : ltask[t].pc # "idle"
    /\ \A t \in LockTasks : ltask[t].pc # "idle" => Blocked(t)

LockStep(t, tk, h, g) ==
    /\ ltask' = [ltask EXCEPT ![t] = tk]
    /\ held' = h
    /\ graph' = g
    /\ UNCHANGED <<storeVars, walVars, hnswVars, mmVars, recVars>>

\* a call of VectorStore::insert, ::delete or ::query reaches its
\* self.indexes.write() or .read()
IndexCall(t, op) ==
    /\ ltask[t].pc = "idle"
    /\ op \in {"insert", "delete"} => graph.version < MaxVersions
    /\ LockStep(t, [IdleLockTask EXCEPT !.op = op, !.pc = "indexes"], held, graph)

\* a lock is taken; after the entry point is locked the call knows the
\* layers it will walk
Lock(t, n) ==
    /\ Wants(ltask[t]) # NoWant
    /\ Available(held, Wants(ltask[t]))
    /\ LockStep(t, [ltask[t] EXCEPT
                       !.pc = AfterLock(ltask[t]),
                       !.rounds = IF ltask[t].pc \in {"insert_entry", "search_entry"}
                                  THEN n ELSE @],
                Acquire(held, Wants(ltask[t]), t), graph)

\* insert into an empty index: the node becomes the entry point
InsertFirst(t) ==
    /\ ltask[t].pc = "insert_first"
    /\ LockStep(t, [ltask[t] EXCEPT !.pc = "return"], held,
                [graph EXCEPT !.version = @ + 1, !.count = @ + 1])

\* drop(nodes) before a search_layer
InsertDrop(t) ==
    /\ ltask[t].pc = "insert_drop"
    /\ LockStep(t, [ltask[t] EXCEPT !.pc = "search_layer"],
                Release(held, {"nodes"}, t), graph)

\* search_layer, and the blocks of search that read the node table: the graph
\* is read and the read guard dropped
SearchLayerEnd(t) ==
    /\ ltask[t].pc = "search_layer_end"
    /\ LockStep(t,
          IF ltask[t].op = "insert"
          THEN [ltask[t] EXCEPT !.pc = "insert_relock"]
          ELSE [ltask[t] EXCEPT
                   !.seen = @ \cup {[version |-> graph.version,
                                     partial |-> graph.partial]},
                   !.rounds = @ - 1,
                   !.pc = IF ltask[t].rounds > 1 THEN "search_layer" ELSE "return"],
          Release(held, {"nodes"}, t), graph)

\* the connections of one layer are written under the retaken lock
InsertLink(t) ==
    /\ ltask[t].pc = "insert_link"
    /\ LockStep(t, [ltask[t] EXCEPT
                       !.rounds = @ - 1,
                       !.pc = IF ltask[t].rounds > 1 THEN "insert_drop"
                              ELSE "insert_final"],
                held, [graph EXCEPT !.partial = TRUE])

\* the entry point is updated and nodes.insert(id, new_node) ends the insert
InsertFinal(t) ==
    /\ ltask[t].pc = "insert_final"
    /\ LockStep(t, [ltask[t] EXCEPT !.pc = "return"], held,
                [graph EXCEPT !.version = @ + 1, !.partial = FALSE, !.count = @ + 1])

\* nodes.remove(id)
DeleteRemove(t) ==
    /\ ltask[t].pc = "delete_remove"
    /\ IF graph.count = 0
       THEN LockStep(t, [ltask[t] EXCEPT !.pc = "return"], held, graph)
       ELSE LockStep(t, [ltask[t] EXCEPT !.pc = "delete_unlink"], held,
                     [graph EXCEPT !.partial = TRUE, !.count = @ - 1])

\* the edges to the node are removed and the entry point is chosen again
DeleteUnlink(t) ==
    /\ ltask[t].pc = "delete_unlink"
    /\ LockStep(t, [ltask[t] EXCEPT !.pc = "return"], held,
                [graph EXCEPT !.version = @ + 1, !.partial = FALSE])

\* the index call returns and the call of the vector store after it: the
\* guards on entry_point, nodes and indexes are dropped
IndexReturn(t) ==
    /\ ltask[t].pc = "return"
    /\ LockStep(t, IdleLockTask, Release(held, {"entry_point", "nodes", "indexes"}, t),
                graph)

IndexLocksNext ==
    \/ \E t \in LockTasks, op \in {"insert", "delete", "query"} : IndexCall(t, op)
    \/ \E t \in LockTasks, n \in 1..MaxRounds : Lock(t, n)
    \/ \E t \in LockTasks : InsertFirst(t)
    \/ \E t \in LockTasks : InsertDrop(t)
    \/ \E t \in LockTasks : SearchLayerEnd(t)
    \/ \E t \in LockTasks : InsertLink(t)
    \/ \E t \in LockTasks : InsertFinal(t)
    \/ \E t \in LockTasks : DeleteRemove(t)
    \/ \E t \in LockTasks : DeleteUnlink(t)
    \/ \E t \in LockTasks : IndexReturn(t)

\* a call of MMapStorage::append or ::sync
MmapCall(t, op) ==
    /\ ltask[t].pc = "idle"
    /\ LockStep(t, [IdleLockTask EXCEPT
                       !.op = op,
                       !.pc = IF op = "append" THEN "append_position" ELSE "sync_mmap"],
                held, graph)

\* append, the end of its first block: position and size are read and their
\* guards dropped; grow follows when the data does not fit
AppendCheck(t, need_grow) ==
    /\ ltask[t].pc = "append_check"
    /\ LockStep(t, [ltask[t] EXCEPT
                       !.pc = IF need_grow THEN "grow_file" ELSE "write_position"],
                Release(held, {"size", "position"}, t), graph)

\* grow returns: its guards on size, mmap and file are dropped
GrowEnd(t) ==
    /\ ltask[t].pc = "grow_end"
    /\ LockStep(t, [ltask[t] EXCEPT !.pc = "write_position"],
                Release(held, {"size", "mmap", "file"}, t), graph)

\* append, the end of its second block
AppendEnd(t) ==
    /\ ltask[t].pc = "append_end"
    /\ LockStep(t, IdleLockTask, Release(held, {"mmap", "position"}, t), graph)

\* sync returns after self.file.lock().sync_all()
SyncEnd(t) ==
    /\ ltask[t].pc = "sync_end"
    /\ LockStep(t, IdleLockTask, Release(held, {"file", "mmap"}, t), graph)

MmapLocksNext ==
    \/ \E t \in LockTasks, op \in {"append", "sync"} : MmapCall(t, op)
    \/ \E t \in LockTasks, n \in 1..MaxRounds : Lock(t, n)
    \/ \E t \in LockTasks, need_grow \in BOOLEAN : AppendCheck(t, need_grow)
    \/ \E t \in LockTasks : GrowEnd(t)
    \/ \E t \in LockTasks : AppendEnd(t)
    \/ \E t \in LockTasks : SyncEnd(t)

(***************************************************************************)
(* Properties of the locks (SpecIndexLocks, SpecMmapLocks).                *)
(***************************************************************************)
\* the tasks inside HnswIndex::insert or ::delete
Writing == {t \in LockTasks : ltask[t].op \in {"insert", "delete"}
                              /\ ltask[t].pc \notin {"idle", "indexes"}}

\* C35: while an insert or delete runs on the index, the windows in which
\* insert has dropped the node-table lock included, no query holds a lock of
\* the index; all reads of one query see the same completed graph; and the
\* calls never all wait for each other.
C35_QuerySeesWholeOperations ==
    /\ Writing # {} =>
          \A u \in LockTasks \ Writing :
              \A l \in {"indexes", "nodes", "entry_point"} :
                  held[l].w # u /\ u \notin held[l].r
    /\ \A u \in LockTasks :
          /\ \A s \in ltask[u].seen : ~s.partial
          /\ \A s1, s2 \in ltask[u].seen : s1.version = s2.version
    /\ ~Deadlocked

\* C35 witness: an insert into a non-empty index has written part of its
\* edges and dropped the node-table lock for its next search_layer, while a
\* query waits for the registry lock.
C35_Witness ==
    \E t, u \in LockTasks :
        /\ ltask[t].op = "insert" /\ ltask[t].pc = "search_layer"
        /\ graph.partial /\ held["nodes"] = FreeLock
        /\ ltask[u].op = "query" /\ ltask[u].pc = "indexes"

\* C36: concurrent append (with grow) and sync on one MMapStorage always
\* complete: the calls under way never all wait for each other.
C36_AppendSyncComplete == ~Deadlocked

Init == StoreInit /\ WalIdle /\ HnswIdle /\ MmIdle /\ RecIdle /\ LocksIdle

Next == StoreNext

Spec == Init /\ [][Next]_vars

\* the same store called by NumTasks concurrent tasks
ConcInit ==
    /\ mode = "concurrent"
    /\ wal = <<>>
    /\ dirs = {}
    /\ storages = [h \in Handles |-> FreeStorage]
    /\ registry = [c \in Names |-> 0]
    /\ indexes = [c \in Names |-> NoIndex]
    /\ task = [t \in Tasks |-> IdleTask]
    /\ phase = "up"
    /\ restarts = 0
    /\ walFails = 0
    /\ ret = NoReturn
    /\ WalIdle
    /\ HnswIdle
    /\ MmIdle
    /\ RecIdle
    /\ LocksIdle

\* no kill while the tasks run
ConcNext == StoreCalls

SpecConc == ConcInit /\ [][ConcNext]_vars

\* the WAL file alone
SpecWal == Init /\ [][WalNext]_vars

\* one HNSW index alone
InitHnsw == StoreInit /\ WalIdle /\ HnswInit /\ MmIdle /\ RecIdle /\ LocksIdle

SpecHnsw == InitHnsw /\ [][HnswNext]_vars

\* one MMapStorage alone
SpecMmap == Init /\ [][MmNext]_vars

\* the locks around one index
SpecIndexLocks == Init /\ [][IndexLocksNext]_vars

\* the locks inside one MMapStorage
SpecMmapLocks == Init /\ [][MmapLocksNext]_vars

\* recover_from_wal alone, on any short WAL and any set of directories
InitRecovery == StoreInit /\ WalIdle /\ HnswIdle /\ MmIdle /\ RecInit /\ LocksIdle

SpecRecovery == InitRecovery /\ [][RecNext]_vars

====
